---- MODULE Spec2Model ----
(***************************************************************************)
(* TaskFlow (src/app.js): the task collection, its localStorage            *)
(* persistence, the confirm dialog, JSON export/import and the             *)
(* filter/sort pipeline getFilteredTasks.                                  *)
(*                                                                         *)
(* Conventions.  Instants (Date, ISO strings) are integer ticks, DayLen    *)
(* ticks to a local calendar day; NULL is JavaScript's null/undefined.     *)
(* An argument object that may lack fields is a record holding the falsy   *)
(* value of each missing field (NULL, "", <<>>, FALSE), which is how       *)
(* createTask reads it.  A text (title, description, tag, query) is the    *)
(* sequence of its symbols, a symbol being a character or a word; "" is    *)
(* <<>>.  Settings values are held as their JSON text.  Generated ids      *)
(* (`t_<ms>_<random>`) are fresh naturals; ids written in an imported      *)
(* file are the numbers above 100.                                         *)
(***************************************************************************)
EXTENDS Integers, Sequences, FiniteSets, TLC

VARIABLES
  page,             \* "closed" | "open" | "crashed" (init threw)
  tasks,            \* state.tasks, when it is an array
  tasksType,        \* the JavaScript type of state.tasks
  settings,         \* state.settings
  ls,               \* localStorage: tf_tasks, tf_settings, tf_seeded
  now,              \* the clock
  selectedIds,      \* state.selectedIds
  modalOpen,        \* the task dialog is shown
  editingTaskId,    \* state.editingTaskId
  confirmOpen,      \* the confirm overlay is shown
  okListeners,      \* click listeners on the current #confirm-ok element
  dispatch,         \* listeners of the click being dispatched, still to run
  reading,          \* files a FileReader is reading
  downloads,        \* the last file written by download()
  toasts,           \* toasts shown by the last handler
  lastOp,           \* the last handler that ran
  opsDone,          \* how many collection-changing operations the user has started
  currentView, sortBy, filterTag, filterPriorities, filterDue, searchQuery,
  dialog,           \* the task dialog's title, due and tags fields and state.modalPriority
  parsed,           \* what parseNLP last returned
  searchInput,      \* the value of the search box
  timers,           \* the pending timers handleSearch has set, oldest first
  worker            \* sw.js: the worker's phase, the origin's caches, the network, the last fetch

vars == <<page, tasks, tasksType, settings, ls, now, selectedIds, modalOpen,
          editingTaskId, confirmOpen, okListeners, dispatch, reading,
          downloads, toasts, lastOp, opsDone, currentView, sortBy, filterTag,
          filterPriorities, filterDue, searchQuery, dialog, parsed,
          searchInput, timers, worker>>

appVars == <<page, tasks, tasksType, settings, ls, selectedIds, modalOpen,
             editingTaskId, confirmOpen, okListeners, dispatch, reading,
             downloads, toasts, lastOp>>

queryVars == <<currentView, sortBy, filterTag, filterPriorities, filterDue,
               searchQuery>>

searchVars == <<searchInput, timers, worker>>

\* what the user has typed (the dialog's fields, the search box and its
\* timers), and the service worker beside the page
entryVars == <<dialog, parsed, searchInput, timers, worker>>

(***************************************************************************)
(* Bounds                                                                  *)
(***************************************************************************)
MaxTasks == 2       \* user operations are explored on collections up to this size
MaxTime == 1        \* the clock runs from 0 to MaxTime
MaxListeners == 1   \* confirm() is explored while #confirm-ok has at most this many listeners
MaxOps == 2         \* the user starts at most this many collection-changing operations
DayLen == 4         \* ticks per calendar day
QLen == 3           \* queries are explored on collections up to this size
WLen == 2           \* date windows are explored on collections up to this size

NULL == -1

Range(s) == {s[i] : i \in 1..Len(s)}

Max(S) == CHOOSE m \in S : \A x \in S : x <= m

Min(S) == CHOOSE m \in S : \A x \in S : m <= x

SeqIds(ts) == {ts[i].id : i \in 1..Len(ts)}

(***************************************************************************)
(* Dates                                                                   *)
(***************************************************************************)
\* new Date(y, m, d): local midnight of the day of instant t
StartOfDay(t) == t - (t % DayLen)

\* new Date(y, m, d, h, mi): the tick of wall-clock time h:mi on the day of t
AtTime(t, h, mi) == StartOfDay(t) + (((h * 60 + mi) * DayLen) \div 1440)

\* d.setDate(d.getDate() + n): the same wall-clock time n days later
AddDays(t, n) == t + n * DayLen

(***************************************************************************)
(* Task model                                                              *)
(***************************************************************************)
\* an argument object with no field set
NoData ==
  [id |-> NULL, title |-> <<>>, description |-> <<>>, createdAt |-> NULL,
   updatedAt |-> NULL, dueAt |-> NULL, completedAt |-> NULL, priority |-> "",
   tags |-> <<>>, subtasks |-> <<>>, order |-> NULL, starred |-> FALSE,
   reminderAt |-> NULL, metadata |-> <<>>]

\* createTask reading the order as `data.order || Date.now()`: an order of 0 is lost
createTaskOrderFalsy(data, t, fresh) ==
  [id          |-> IF data.id # NULL THEN data.id ELSE fresh,
   title       |-> data.title,
   description |-> data.description,
   createdAt   |-> IF data.createdAt # NULL THEN data.createdAt ELSE t,
   updatedAt   |-> t,
   dueAt       |-> data.dueAt,
   completedAt |-> data.completedAt,
   priority    |-> IF data.priority # "" THEN data.priority ELSE "medium",
   tags        |-> data.tags,
   subtasks    |-> data.subtasks,
   order       |-> IF data.order # NULL /\ data.order # 0 THEN data.order ELSE t,
   starred     |-> data.starred,
   reminderAt  |-> data.reminderAt,
   metadata    |-> data.metadata]

\* createTask(data) at instant t, fresh being the id the generator would give
createTask(data, t, fresh) ==
  [id          |-> IF data.id # NULL THEN data.id ELSE fresh,
   title       |-> IF data.title # <<>> THEN data.title ELSE <<>>,
   description |-> IF data.description # <<>> THEN data.description ELSE <<>>,
   createdAt   |-> IF data.createdAt # NULL THEN data.createdAt ELSE t,
   updatedAt   |-> t,
   dueAt       |-> IF data.dueAt # NULL THEN data.dueAt ELSE NULL,
   completedAt |-> IF data.completedAt # NULL THEN data.completedAt ELSE NULL,
   priority    |-> IF data.priority # "" THEN data.priority ELSE "medium",
   tags        |-> data.tags,
   subtasks    |-> data.subtasks,
   order       |-> IF data.order # NULL THEN data.order ELSE t,
   starred     |-> data.starred,
   reminderAt  |-> IF data.reminderAt # NULL THEN data.reminderAt ELSE NULL,
   metadata    |-> data.metadata]

(***************************************************************************)
(* Storage layer                                                           *)
(***************************************************************************)
\* the text JSON.stringify(tasks) writes
StringifyTasks(ts) == [kind |-> "array", items |-> ts]

\* localStorage.getItem(TASKS_KEY) of a store that has no such key
NoItem == [kind |-> "missing", items |-> <<>>]

\* Storage.getTasks(): JSON.parse(item || '[]'), [] when parsing throws.
\* The result is whatever JSON value the text holds.
StorageGetTasks(store) ==
  LET raw == IF store.tf_tasks.kind \in {"missing", "empty"}
             THEN StringifyTasks(<<>>) ELSE store.tf_tasks
  IN IF raw.kind = "bad" THEN [type |-> "array", items |-> <<>>]
     ELSE [type |-> raw.kind, items |-> raw.items]

\* Storage.saveTasks(tasks)
StorageSaveTasks(store, ts) == [store EXCEPT !.tf_tasks = StringifyTasks(ts)]

SettingsDefaults ==
  [theme |-> "dark", accent |-> "indigo", density |-> "comfortable",
   defaultSort |-> "custom", defaultView |-> "today",
   notifications |-> "false", reminderMinutes |-> "15"]

\* an object with no own property
EmptyObj == [k \in {} |-> ""]

\* { ...a, ...b }
Spread(a, b) ==
  [k \in (DOMAIN a) \cup (DOMAIN b) |-> IF k \in DOMAIN b THEN b[k] ELSE a[k]]

NoSettingsItem == [kind |-> "missing", obj |-> EmptyObj]

\* the own enumerable properties a spread copies out of a parsed JSON value
OwnProps(text) ==
  IF text.kind \in {"object", "string", "array"} THEN text.obj ELSE EmptyObj

\* Storage.getSettings()
StorageGetSettings(store) ==
  LET raw == IF store.tf_settings.kind \in {"missing", "empty"}
             THEN [kind |-> "object", obj |-> EmptyObj] ELSE store.tf_settings
  IN IF raw.kind = "bad" THEN SettingsDefaults
     ELSE Spread(SettingsDefaults, OwnProps(raw))

\* Storage.saveSettings(s)
StorageSaveSettings(store, s) ==
  [store EXCEPT !.tf_settings = [kind |-> "object", obj |-> s]]

\* localStorage.clear()
ClearedStore == [tf_tasks |-> NoItem, tf_settings |-> NoSettingsItem, tf_seeded |-> FALSE]

(***************************************************************************)
(* Fresh ids                                                               *)
(***************************************************************************)
\* the id the generator gives: one that nothing refers to
Fresh(used) == Min({i \in 1..(Cardinality(used) + 1) : i \notin used})

RECURSIVE CreateAll(_, _, _)
\* datas.map(d => createTask(d)), every generated id distinct
CreateAll(datas, t, used) ==
  IF datas = <<>> THEN <<>>
  ELSE LET task == createTask(Head(datas), t, Fresh(used))
       IN <<task>> \o CreateAll(Tail(datas), t, used \cup {task.id})

ListenerIds(ls_) ==
  UNION {({ls_[i].id} \cup SeqIds(ls_[i].items)) : i \in 1..Len(ls_)}

\* every id some part of the browser's state still holds
ReferencedIds ==
  SeqIds(tasks) \cup selectedIds \cup {editingTaskId}
    \cup ListenerIds(okListeners) \cup ListenerIds(dispatch)
    \cup UNION {SeqIds(f.items) : f \in reading}
    \cup SeqIds(downloads.items) \cup SeqIds(ls.tf_tasks.items)

(***************************************************************************)
(* Bootstrap: seedDemoTasks, then init                                     *)
(***************************************************************************)
\* the demo array of seedDemoTasks, built at instant t
DemoData(t) ==
  << [NoData EXCEPT !.title = <<"Welcome to TaskFlow!">>,
                    !.description = <<"Your offline-first task manager.">>,
                    !.priority = "low", !.dueAt = AtTime(t, 23, 59),
                    !.tags = << <<"intro">> >>, !.starred = TRUE],
     [NoData EXCEPT !.title = <<"Try adding a task with natural language">>,
                    !.description = <<"Type: Meeting tomorrow 9am #work !high">>,
                    !.priority = "medium", !.dueAt = AtTime(t, 18, 0),
                    !.tags = << <<"tip">> >>],
     [NoData EXCEPT !.title = <<"Review project roadmap">>,
                    !.description = <<"Check milestones for Q2">>,
                    !.priority = "high", !.dueAt = AddDays(t, 1),
                    !.tags = << <<"work">> >>,
                    !.subtasks = << [id |-> "s1", title |-> <<"Review design mockups">>, done |-> TRUE],
                                    [id |-> "s2", title |-> <<"Update timelines">>, done |-> FALSE] >>],
     [NoData EXCEPT !.title = <<"Buy groceries">>, !.priority = "low",
                    !.tags = << <<"personal">> >>, !.dueAt = AddDays(t, 1)],
     [NoData EXCEPT !.title = <<"Read 30 minutes before bed">>, !.priority = "low",
                    !.tags = << <<"health">>, <<"personal">> >>,
                    !.dueAt = AddDays(t, 3)] >>

\* seedDemoTasks() on a freshly loaded page (state.tasks is []): the store it leaves
seedDemoTasks(store, t, used) ==
  IF store.tf_seeded THEN store
  ELSE LET demo == DemoData(t)
           seeded == CreateAll([i \in 1..Len(demo) |-> [demo[i] EXCEPT !.order = i - 1]],
                               t, used)
       IN [StorageSaveTasks(store, seeded) EXCEPT !.tf_seeded = TRUE]

\* the value '' of the due field
NoLocal == [day |-> NULL, minute |-> NULL]

\* the dialog's fields as the page's markup and the module's `state` give them
EmptyDialog ==
  [title |-> <<>>, due |-> NoLocal, tags |-> <<>>, priority |-> "medium"]

\* sw.js is not registered: no cache, the network up, nothing fetched
NoWorker ==
  [phase |-> "none", caches |-> <<>>, online |-> TRUE, request |-> "",
   response |-> [source |-> "none", body |-> "", network |-> FALSE]]

\* no fragment has been parsed
NoResult == [title |-> <<>>, dueAt |-> NULL, priority |-> "none", tags |-> <<>>]

\* `x || fallback` on a settings value
OrElse(x, fallback) == IF x \in {"", "null", "false", "0"} THEN fallback ELSE x

\* the DOMContentLoaded handler on a freshly loaded page
DOMContentLoaded(store, t, used) ==
  LET store2 == seedDemoTasks(store, t, used)
      loaded == StorageGetTasks(store2)
      s      == StorageGetSettings(store2)
  IN /\ ls' = store2
     /\ tasks' = loaded.items
     /\ tasksType' = loaded.type
     /\ settings' = s
     /\ currentView' = OrElse(s.defaultView, "today")
     /\ sortBy' = OrElse(s.defaultSort, "custom")
     \* renderAll() spreads, filters and flatMaps state.tasks and reads each
     \* element's fields: init throws unless it is an array of objects
     /\ page' = IF loaded.type = "array" THEN "open" ELSE "crashed"
     /\ selectedIds' = {}
     /\ modalOpen' = FALSE
     /\ editingTaskId' = NULL
     /\ confirmOpen' = FALSE
     /\ okListeners' = <<>>
     /\ dispatch' = <<>>
     /\ reading' = {}
     /\ toasts' = <<>>
     /\ filterTag' = <<>>
     /\ filterPriorities' = <<>>
     /\ filterDue' = ""
     /\ searchQuery' = <<>>
     /\ dialog' = EmptyDialog
     /\ parsed' = NoResult
     /\ searchInput' = <<>>
     /\ timers' = <<>>
     /\ UNCHANGED worker
     /\ UNCHANGED <<now, downloads, opsDone>>

\* no file
NoFile ==
  [json |-> FALSE, kind |-> "none", items |-> <<>>, version |-> NULL,
   exportedAt |-> NULL, settings |-> EmptyObj]

\* the page before it is opened: the module's initial `state`
PageClosed ==
  /\ page = "closed"
  /\ tasks = <<>>
  /\ tasksType = "array"
  /\ settings = EmptyObj
  /\ selectedIds = {}
  /\ modalOpen = FALSE
  /\ editingTaskId = NULL
  /\ confirmOpen = FALSE
  /\ okListeners = <<>>
  /\ dispatch = <<>>
  /\ reading = {}
  /\ downloads = NoFile
  /\ toasts = <<>>
  /\ lastOp = "none"
  /\ opsDone = 0
  /\ currentView = "today"
  /\ sortBy = "custom"
  /\ filterTag = <<>>
  /\ filterPriorities = <<>>
  /\ filterDue = ""
  /\ searchQuery = <<>>
  /\ dialog = EmptyDialog
  /\ parsed = NoResult
  /\ searchInput = <<>>
  /\ timers = <<>>
  /\ worker = NoWorker

\* a profile whose user deleted every demo task
EmptiedStore ==
  [tf_tasks |-> StringifyTasks(<<>>), tf_settings |-> NoSettingsItem, tf_seeded |-> TRUE]

Init ==
  /\ PageClosed
  /\ now = 0
  /\ ls \in {ClearedStore, EmptiedStore}

\* the page is opened
Boot ==
  /\ page = "closed"
  /\ DOMContentLoaded(ls, now, SeqIds(ls.tf_tasks.items) \cup SeqIds(downloads.items))
  /\ lastOp' = "boot"

\* the page is closed and opened again
Reload ==
  /\ page # "closed"
  /\ dispatch = <<>>
  /\ DOMContentLoaded(ls, now, SeqIds(ls.tf_tasks.items) \cup SeqIds(downloads.items))
  /\ lastOp' = "reload"

\* time passes
Tick ==
  /\ page = "open"
  /\ dispatch = <<>>
  /\ now < MaxTime
  /\ now' = now + 1
  /\ UNCHANGED appVars
  /\ UNCHANGED <<queryVars, entryVars, opsDone>>

(***************************************************************************)
(* Task CRUD                                                               *)
(***************************************************************************)
\* state.tasks.findIndex(t => t.id === id), 0 when there is none
IndexOf(ts, id) ==
  IF \E i \in 1..Len(ts) : ts[i].id = id
  THEN Min({i \in 1..Len(ts) : ts[i].id = id}) ELSE 0

\* the order addTask gives a new task
NextOrder(ts) ==
  IF Len(ts) > 0 THEN Max({ts[i].order : i \in 1..Len(ts)}) + 1 ELSE 0

\* addTask(data)
addTask(data) ==
  LET task == createTask([data EXCEPT !.order = NextOrder(tasks)], now,
                         Fresh(ReferencedIds))
  IN /\ tasks' = <<task>> \o tasks
     /\ ls' = StorageSaveTasks(ls, tasks')
     /\ toasts' = <<"success">>

\* updateTask writing `{ ...task, ...data }` with no new updatedAt
updateTaskKeepsStamp(id, data) ==
  LET idx == IndexOf(tasks, id)
  IN IF idx = 0 THEN UNCHANGED <<tasks, ls>>
     ELSE /\ tasks' = [tasks EXCEPT ![idx] = Spread(tasks[idx], data)]
          /\ ls' = StorageSaveTasks(ls, tasks')

\* updateTask(id, data)
updateTask(id, data) ==
  LET idx == IndexOf(tasks, id)
  IN IF idx = 0 THEN UNCHANGED <<tasks, ls>>
     ELSE /\ tasks' = [tasks EXCEPT ![idx] =
                         [Spread(tasks[idx], data) EXCEPT !.updatedAt = now]]
          /\ ls' = StorageSaveTasks(ls, tasks')

\* deleteTask(id)
deleteTask(id) ==
  /\ tasks' = SelectSeq(tasks, LAMBDA t : t.id # id)
  /\ selectedIds' = selectedIds \ {id}
  /\ ls' = StorageSaveTasks(ls, tasks')
  /\ toasts' = <<"danger">>

\* toggleComplete changing state.tasks only, Storage.saveTasks left out
toggleCompleteUnsaved(id) ==
  LET idx == IndexOf(tasks, id)
  IN /\ tasks' = [tasks EXCEPT ![idx] =
                    [@ EXCEPT !.completedAt = IF @ # NULL THEN NULL ELSE now,
                              !.updatedAt = now]]
     /\ UNCHANGED ls

\* toggleComplete that completes and never clears
toggleCompleteNeverClears(id) ==
  LET idx == IndexOf(tasks, id)
  IN IF idx = 0 THEN UNCHANGED <<tasks, ls>>
     ELSE /\ tasks' = [tasks EXCEPT ![idx] =
                         [@ EXCEPT !.completedAt = now, !.updatedAt = now]]
          /\ ls' = StorageSaveTasks(ls, tasks')

\* toggleComplete(id); the celebration toast is a later timer's
toggleComplete(id) ==
  LET idx == IndexOf(tasks, id)
  IN IF idx = 0 THEN UNCHANGED <<tasks, ls>>
     ELSE /\ tasks' = [tasks EXCEPT ![idx] =
                         [@ EXCEPT !.completedAt = IF @ # NULL THEN NULL ELSE now,
                                   !.updatedAt = now]]
          /\ ls' = StorageSaveTasks(ls, tasks')

\* a swap written without the temporary: both tasks end with dest's order
reorderTasksNoTmp(srcId, destId) ==
  LET s == IndexOf(tasks, srcId)
      d == IndexOf(tasks, destId)
  IN IF s = 0 \/ d = 0 THEN UNCHANGED <<tasks, ls>>
     ELSE /\ tasks' = [i \in 1..Len(tasks) |->
                         IF i = s \/ i = d
                         THEN [tasks[i] EXCEPT !.order = tasks[d].order, !.updatedAt = now]
                         ELSE tasks[i]]
          /\ ls' = StorageSaveTasks(ls, tasks')

\* reorderTasks(srcId, destId)
reorderTasks(srcId, destId) ==
  LET s == IndexOf(tasks, srcId)
      d == IndexOf(tasks, destId)
  IN IF s = 0 \/ d = 0 THEN UNCHANGED <<tasks, ls>>
     ELSE /\ tasks' = [i \in 1..Len(tasks) |->
                         IF i = s THEN [tasks[i] EXCEPT !.order = tasks[d].order, !.updatedAt = now]
                         ELSE IF i = d THEN [tasks[i] EXCEPT !.order = tasks[s].order, !.updatedAt = now]
                         ELSE tasks[i]]
          /\ ls' = StorageSaveTasks(ls, tasks')

(***************************************************************************)
(* What the user can reach                                                 *)
(***************************************************************************)
\* no handler is running
Idle == page = "open" /\ dispatch = <<>>

\* neither overlay covers the page; the user lets a file read finish first
Foreground == Idle /\ ~modalOpen /\ ~confirmOpen /\ reading = {}

\* the collection is within the explored size
Small == Len(tasks) <= MaxTasks

dialogVars == <<modalOpen, editingTaskId>>
confirmVars == <<confirmOpen, okListeners, dispatch>>

(***************************************************************************)
(* Task dialog                                                             *)
(***************************************************************************)
RECURSIVE TrimStart(_)
TrimStart(s) == IF s # <<>> /\ Head(s) = " " THEN TrimStart(Tail(s)) ELSE s

RECURSIVE TrimEnd(_)
TrimEnd(s) ==
  IF s # <<>> /\ s[Len(s)] = " " THEN TrimEnd(SubSeq(s, 1, Len(s) - 1)) ELSE s

\* String.prototype.trim
Trim(s) == TrimEnd(TrimStart(s))

\* what the user may have put in the dialog's fields when saving
FormInputs ==
  { [title |-> <<" ", " ">>, description |-> <<>>, dueAt |-> NULL,
     priority |-> "medium", tags |-> <<>>, starred |-> FALSE, subtasks |-> <<>>],
    [title |-> <<" ", "milk">>, description |-> <<>>, dueAt |-> NULL,
     priority |-> "high", tags |-> <<>>, starred |-> FALSE, subtasks |-> <<>>],
    [title |-> <<"call">>, description |-> <<"soon", " ">>, dueAt |-> AddDays(1, 1),
     priority |-> "low", tags |-> << <<"work">> >>, starred |-> TRUE,
     subtasks |-> << [id |-> "s_0", title |-> <<" ">>, done |-> FALSE] >>] }

\* openAddModal()
OpenAddModal ==
  /\ Foreground /\ Len(tasks) < MaxTasks /\ opsDone < MaxOps
  /\ editingTaskId' = NULL
  /\ modalOpen' = TRUE
  /\ toasts' = <<>>
  /\ lastOp' = "openAddModal"
  /\ dialog' = EmptyDialog
  /\ parsed' = NoResult
  /\ UNCHANGED searchVars
  /\ UNCHANGED <<page, tasks, tasksType, settings, ls, now, selectedIds,
                 reading, downloads>>
  /\ UNCHANGED confirmVars
  /\ UNCHANGED <<queryVars, opsDone>>

\* openEditModal(id), from a click on the task's card
OpenEditModal(id) ==
  /\ Foreground /\ Small /\ opsDone < MaxOps
  /\ IndexOf(tasks, id) # 0
  /\ editingTaskId' = id
  /\ modalOpen' = TRUE
  /\ toasts' = <<>>
  /\ lastOp' = "openEditModal"
  /\ UNCHANGED <<page, tasks, tasksType, settings, ls, now, selectedIds,
                 reading, downloads>>
  /\ UNCHANGED confirmVars
  /\ UNCHANGED <<queryVars, entryVars, opsDone>>

\* closeModal(), from the close or cancel button or the overlay
CloseModal ==
  /\ Idle /\ modalOpen
  /\ modalOpen' = FALSE
  /\ editingTaskId' = NULL
  /\ toasts' = <<>>
  /\ lastOp' = "closeModal"
  /\ UNCHANGED <<page, tasks, tasksType, settings, ls, now, selectedIds,
                 reading, downloads>>
  /\ UNCHANGED confirmVars
  /\ UNCHANGED <<queryVars, entryVars, opsDone>>

\* the data object saveModal builds from the form
FormData(form) ==
  [title |-> Trim(form.title),
   description |-> Trim(form.description),
   dueAt |-> form.dueAt,
   priority |-> form.priority,
   tags |-> form.tags,
   starred |-> form.starred,
   subtasks |-> SelectSeq(form.subtasks, LAMBDA st : Trim(st.title) # <<>>)]

\* saveModal()
saveModal(form) ==
  IF Trim(form.title) = <<>>
  THEN /\ toasts' = <<>>
       /\ lastOp' = "saveRejected"
       /\ UNCHANGED <<tasks, ls, modalOpen, editingTaskId>>
  ELSE /\ IF editingTaskId # NULL
          THEN /\ updateTask(editingTaskId, FormData(form))
               /\ toasts' = <<"success">>
               /\ lastOp' = "updateTask"
          ELSE /\ addTask(Spread(NoData, FormData(form)))
               /\ lastOp' = "addTask"
       /\ modalOpen' = FALSE
       /\ editingTaskId' = NULL

SaveModal(form) ==
  /\ Idle /\ modalOpen
  /\ saveModal(form)
  /\ opsDone' = IF Trim(form.title) = <<>> THEN opsDone ELSE opsDone + 1
  /\ UNCHANGED <<page, tasksType, settings, now, selectedIds, reading, downloads>>
  /\ UNCHANGED confirmVars
  /\ UNCHANGED <<queryVars, entryVars>>

(***************************************************************************)
(* Card and context-menu handlers                                          *)
(***************************************************************************)
\* context menu, Star / Unstar
ToggleStar(id) ==
  /\ Foreground /\ Small
  /\ opsDone < MaxOps
  /\ opsDone' = opsDone + 1
  /\ IndexOf(tasks, id) # 0
  /\ updateTask(id, [starred |-> ~tasks[IndexOf(tasks, id)].starred])
  /\ toasts' = <<>>
  /\ lastOp' = "updateTask"
  /\ UNCHANGED <<page, tasksType, settings, now, selectedIds, reading, downloads>>
  /\ UNCHANGED dialogVars
  /\ UNCHANGED confirmVars
  /\ UNCHANGED <<queryVars, entryVars>>

\* the card's checkbox, or context menu Mark Complete / Incomplete
ToggleComplete(id) ==
  /\ Foreground /\ Small
  /\ opsDone < MaxOps
  /\ opsDone' = opsDone + 1
  /\ IndexOf(tasks, id) # 0
  /\ toggleComplete(id)
  /\ toasts' = <<>>
  /\ lastOp' = "toggleComplete"
  /\ UNCHANGED <<page, tasksType, settings, now, selectedIds, reading, downloads>>
  /\ UNCHANGED dialogVars
  /\ UNCHANGED confirmVars
  /\ UNCHANGED <<queryVars, entryVars>>

\* a card dropped on another card
ReorderDrop(srcId, destId) ==
  /\ Foreground /\ Small
  /\ opsDone < MaxOps
  /\ opsDone' = opsDone + 1
  /\ IndexOf(tasks, srcId) # 0 /\ IndexOf(tasks, destId) # 0
  /\ srcId # destId
  /\ reorderTasks(srcId, destId)
  /\ toasts' = <<>>
  /\ lastOp' = "reorderTasks"
  /\ UNCHANGED <<page, tasksType, settings, now, selectedIds, reading, downloads>>
  /\ UNCHANGED dialogVars
  /\ UNCHANGED confirmVars
  /\ UNCHANGED <<queryVars, entryVars>>

\* toggleSelect(id), from a modified click on the task's card
ToggleSelect(id) ==
  /\ Foreground /\ Small
  /\ IndexOf(tasks, id) # 0
  /\ id \in selectedIds \/ Cardinality(selectedIds) < MaxTasks
  /\ selectedIds' = IF id \in selectedIds THEN selectedIds \ {id}
                    ELSE selectedIds \cup {id}
  /\ toasts' = <<>>
  /\ lastOp' = "toggleSelect"
  /\ UNCHANGED <<page, tasks, tasksType, settings, ls, now, reading, downloads>>
  /\ UNCHANGED dialogVars
  /\ UNCHANGED confirmVars
  /\ UNCHANGED <<queryVars, entryVars, opsDone>>

\* the bulk bar's Complete button
BulkComplete ==
  /\ Foreground /\ Small
  /\ opsDone < MaxOps
  /\ opsDone' = opsDone + 1
  /\ selectedIds # {}
  /\ tasks' = [i \in 1..Len(tasks) |->
                 IF /\ tasks[i].id \in selectedIds
                    /\ i = IndexOf(tasks, tasks[i].id)     \* find(): the first with that id
                    /\ tasks[i].completedAt = NULL
                 THEN [tasks[i] EXCEPT !.completedAt = now, !.updatedAt = now]
                 ELSE tasks[i]]
  /\ ls' = StorageSaveTasks(ls, tasks')
  /\ selectedIds' = {}
  /\ toasts' = <<"success">>
  /\ lastOp' = "bulkComplete"
  /\ UNCHANGED <<page, tasksType, settings, now, reading, downloads>>
  /\ UNCHANGED dialogVars
  /\ UNCHANGED confirmVars
  /\ UNCHANGED <<queryVars, entryVars>>

\* the bulk bar's Deselect button
BulkDeselect ==
  /\ Foreground
  /\ selectedIds # {}
  /\ selectedIds' = {}
  /\ toasts' = <<>>
  /\ lastOp' = "bulkDeselect"
  /\ UNCHANGED <<page, tasks, tasksType, settings, ls, now, reading, downloads>>
  /\ UNCHANGED dialogVars
  /\ UNCHANGED confirmVars
  /\ UNCHANGED <<queryVars, entryVars, opsDone>>

(***************************************************************************)
(* Confirm dialog                                                          *)
(***************************************************************************)
\* an onConfirm closure: what it calls and the values it captured
Listener(kind, id, items, isArray) ==
  [kind |-> kind, id |-> id, items |-> items, isArray |-> isArray]

\* confirm(message, onConfirm): shows the overlay and adds a once-listener
\* to the #confirm-ok element now in the document
confirm(onConfirm) ==
  /\ confirmOpen' = TRUE
  /\ okListeners' = Append(okListeners, onConfirm)

\* the handler may call confirm()
MayConfirm == Len(okListeners) <= MaxListeners

\* confirmDelete(id), from the context menu
ConfirmDelete(id) ==
  /\ Foreground /\ Small /\ MayConfirm
  /\ opsDone < MaxOps
  /\ opsDone' = opsDone + 1
  /\ IndexOf(tasks, id) # 0
  /\ confirm(Listener("delete", id, <<>>, TRUE))
  /\ toasts' = <<>>
  /\ lastOp' = "confirmDelete"
  /\ UNCHANGED <<page, tasks, tasksType, settings, ls, now, selectedIds,
                 dispatch, reading, downloads>>
  /\ UNCHANGED dialogVars
  /\ UNCHANGED <<queryVars, entryVars>>

\* the bulk bar's Delete button
BulkDeleteClick ==
  /\ Foreground /\ Small /\ MayConfirm
  /\ opsDone < MaxOps
  /\ opsDone' = opsDone + 1
  /\ selectedIds # {}
  /\ confirm(Listener("bulkDelete", NULL, <<>>, TRUE))
  /\ toasts' = <<>>
  /\ lastOp' = "confirmBulkDelete"
  /\ UNCHANGED <<page, tasks, tasksType, settings, ls, now, selectedIds,
                 dispatch, reading, downloads>>
  /\ UNCHANGED dialogVars
  /\ UNCHANGED <<queryVars, entryVars>>

\* Settings, Clear All
ClearDataClick ==
  /\ Foreground /\ MayConfirm
  /\ opsDone < MaxOps
  /\ opsDone' = opsDone + 1
  /\ confirm(Listener("clear", NULL, <<>>, TRUE))
  /\ toasts' = <<>>
  /\ lastOp' = "confirmClear"
  /\ UNCHANGED <<page, tasks, tasksType, settings, ls, now, selectedIds,
                 dispatch, reading, downloads>>
  /\ UNCHANGED dialogVars
  /\ UNCHANGED <<queryVars, entryVars>>

\* a click on #confirm-ok: every listener on the element is to run
ClickOK ==
  /\ Idle /\ confirmOpen
  /\ okListeners # <<>>
  /\ dispatch' = okListeners
  /\ okListeners' = <<>>
  /\ toasts' = <<>>
  /\ lastOp' = "clickOK"
  /\ UNCHANGED <<page, tasks, tasksType, settings, ls, now, selectedIds,
                 confirmOpen, reading, downloads>>
  /\ UNCHANGED dialogVars
  /\ UNCHANGED <<queryVars, entryVars, opsDone>>

\* a click on #confirm-cancel: cleanup hides the overlay and replaces both buttons
ClickCancel ==
  /\ Idle /\ confirmOpen
  /\ confirmOpen' = FALSE
  /\ okListeners' = <<>>
  /\ toasts' = <<>>
  /\ lastOp' = "clickCancel"
  /\ UNCHANGED <<page, tasks, tasksType, settings, ls, now, selectedIds,
                 dispatch, reading, downloads>>
  /\ UNCHANGED dialogVars
  /\ UNCHANGED <<queryVars, entryVars, opsDone>>

\* a click on the confirm overlay outside the dialog: the overlay is hidden
OverlayClick ==
  /\ Idle /\ confirmOpen
  /\ confirmOpen' = FALSE
  /\ toasts' = <<>>
  /\ lastOp' = "overlayClick"
  /\ UNCHANGED <<page, tasks, tasksType, settings, ls, now, selectedIds,
                 okListeners, dispatch, reading, downloads>>
  /\ UNCHANGED dialogVars
  /\ UNCHANGED <<queryVars, entryVars, opsDone>>

\* handleGlobalKeys, Escape
EscapeKey ==
  /\ Idle
  /\ modalOpen \/ confirmOpen \/ selectedIds # {}
  /\ modalOpen' = FALSE
  /\ editingTaskId' = NULL
  /\ confirmOpen' = FALSE
  /\ selectedIds' = {}
  /\ toasts' = <<>>
  /\ lastOp' = "escape"
  /\ UNCHANGED <<page, tasks, tasksType, settings, ls, now, okListeners,
                 dispatch, reading, downloads>>
  /\ UNCHANGED <<queryVars, entryVars, opsDone>>

\* the import confirmation's onConfirm without the existingIds filter
importConfirmedUnfiltered(l) ==
  /\ tasks' = tasks \o CreateAll(l.items, now, ReferencedIds)
  /\ ls' = StorageSaveTasks(ls, tasks')
  /\ toasts' = <<"success">>

\* the import confirmation's onConfirm
importConfirmed(l) ==
  LET existingIds == SeqIds(tasks)
      newTasks == CreateAll(SelectSeq(l.items, LAMBDA t : t.id \notin existingIds),
                            now, ReferencedIds)
  IN /\ tasks' = tasks \o newTasks
     /\ ls' = StorageSaveTasks(ls, tasks')
     /\ toasts' = <<"success">>

\* the bulk delete confirmation's onConfirm
bulkDeleteConfirmed ==
  /\ tasks' = SelectSeq(tasks, LAMBDA t : t.id \notin selectedIds)
  /\ selectedIds' = {}
  /\ ls' = StorageSaveTasks(ls, tasks')
  /\ toasts' = <<"danger">>

\* the clear-data confirmation's onConfirm
clearConfirmed ==
  /\ ls' = ClearedStore
  /\ tasks' = <<>>
  /\ settings' = StorageGetSettings(ClearedStore)
  /\ toasts' = <<"danger">>

\* one listener of the click runs: onConfirm(), then cleanup()
RunListener ==
  /\ page = "open" /\ dispatch # <<>>
  /\ LET l == Head(dispatch)
     IN /\ dispatch' = Tail(dispatch)
        /\ CASE l.kind = "delete" ->
                  /\ deleteTask(l.id)
                  /\ confirmOpen' = FALSE
                  /\ lastOp' = "deleteTask"
                  /\ UNCHANGED settings
             [] l.kind = "bulkDelete" ->
                  /\ bulkDeleteConfirmed
                  /\ confirmOpen' = FALSE
                  /\ lastOp' = "bulkDelete"
                  /\ UNCHANGED settings
             [] l.kind = "clear" ->
                  /\ clearConfirmed
                  /\ confirmOpen' = FALSE
                  /\ lastOp' = "clearData"
                  /\ UNCHANGED selectedIds
             [] l.kind = "import" /\ l.isArray ->
                  /\ importConfirmed(l)
                  /\ confirmOpen' = FALSE
                  /\ lastOp' = "import"
                  /\ UNCHANGED <<settings, selectedIds>>
             [] OTHER ->
                  \* tasks.filter is not a function: onConfirm throws, cleanup is not reached
                  /\ toasts' = <<>>
                  /\ lastOp' = "importThrew"
                  /\ UNCHANGED <<tasks, ls, settings, selectedIds, confirmOpen>>
  /\ UNCHANGED <<page, tasksType, now, okListeners, reading, downloads>>
  /\ UNCHANGED dialogVars
  /\ UNCHANGED <<queryVars, entryVars, opsDone>>

(***************************************************************************)
(* Export / import                                                         *)
(***************************************************************************)
\* exportJSON(): download(name, JSON.stringify({version, exportedAt, tasks, settings}))
exportJSON ==
  /\ downloads' = [json |-> TRUE, kind |-> "object", items |-> tasks, version |-> 1,
                   exportedAt |-> now, settings |-> settings]
  /\ toasts' = <<"success">>

\* the Export JSON button; one backup is explored
ExportJSON ==
  /\ Foreground /\ Small
  /\ downloads = NoFile
  /\ exportJSON
  /\ lastOp' = "exportJSON"
  /\ UNCHANGED <<page, tasks, tasksType, settings, ls, now, selectedIds, reading>>
  /\ UNCHANGED dialogVars
  /\ UNCHANGED confirmVars
  /\ UNCHANGED <<queryVars, entryVars, opsDone>>

\* a file the user may pick: its name's extension and what its text parses to
File(json, kind, items) ==
  [json |-> json, kind |-> kind, items |-> items, version |-> NULL,
   exportedAt |-> NULL, settings |-> EmptyObj]

\* notes.txt
NotJsonFile == File(FALSE, "bad", <<>>)

\* a .json file whose text JSON.parse rejects
BadJsonFile == File(TRUE, "bad", <<>>)

\* a .json file holding `null`
NullJsonFile == File(TRUE, "null", <<>>)

\* a .json file holding {"tasks": 5}
BadTasksFile == File(TRUE, "objectBadTasks", <<>>)

\* a .json file holding a bare array: two records with the same id
DupArrayFile ==
  File(TRUE, "array",
       << [NoData EXCEPT !.id = 101, !.title = <<"imported">>, !.order = 1,
                         !.createdAt = 0, !.priority = "high"],
          [NoData EXCEPT !.id = 101, !.title = <<"again">>] >>)

\* a .json file holding {"tasks": [...]}: a record with DupArrayFile's id, and
\* a record with nothing but a completion time
PartialObjectFile ==
  File(TRUE, "object", << [NoData EXCEPT !.id = 101, !.title = <<"other">>],
                          [NoData EXCEPT !.completedAt = 0] >>)

PickableFiles ==
  {NotJsonFile, BadJsonFile, NullJsonFile, BadTasksFile, DupArrayFile, PartialObjectFile}
    \cup (IF downloads.kind = "none" THEN {} ELSE {downloads})

\* #import-file change: importFile(file) starts reading the file
ImportFile(f) ==
  /\ Foreground /\ Small
  /\ opsDone < MaxOps
  /\ opsDone' = opsDone + 1
  /\ reading = {}
  /\ reading' = reading \cup {f}
  /\ toasts' = <<>>
  /\ lastOp' = "importFile"
  /\ UNCHANGED <<page, tasks, tasksType, settings, ls, now, selectedIds, downloads>>
  /\ UNCHANGED dialogVars
  /\ UNCHANGED confirmVars
  /\ UNCHANGED <<queryVars, entryVars>>

\* the file's text was parsed and `tasks` taken from it without a throw
Parses(f) == f.kind \in {"array", "object", "objectNoTasks", "objectBadTasks"}

\* reader.onload with the warning shown twice for a file that is not .json
readerOnloadTwice(f) ==
  IF f.json
  THEN IF Parses(f)
       THEN /\ confirm(Listener("import", NULL, f.items, f.kind # "objectBadTasks"))
            /\ toasts' = <<>>
            /\ lastOp' = "confirmImport"
       ELSE /\ toasts' = <<"danger">>
            /\ lastOp' = "importInvalid"
            /\ UNCHANGED <<confirmOpen, okListeners>>
  ELSE /\ toasts' = <<"warning", "warning">>
       /\ lastOp' = "importNotJson"
       /\ UNCHANGED <<confirmOpen, okListeners>>

\* reader.onload of importFile(f)
readerOnload(f) ==
  IF f.json
  THEN IF Parses(f)
       THEN /\ confirm(Listener("import", NULL, f.items, f.kind # "objectBadTasks"))
            /\ toasts' = <<>>
            /\ lastOp' = "confirmImport"
       ELSE /\ toasts' = <<"danger">>
            /\ lastOp' = "importInvalid"
            /\ UNCHANGED <<confirmOpen, okListeners>>
  ELSE /\ toasts' = <<"warning">>
       /\ lastOp' = "importNotJson"
       /\ UNCHANGED <<confirmOpen, okListeners>>

ReaderOnload(f) ==
  /\ Idle
  /\ f \in reading
  /\ (f.json /\ Parses(f)) => MayConfirm
  /\ reading' = reading \ {f}
  /\ readerOnload(f)
  /\ UNCHANGED <<page, tasks, tasksType, settings, ls, now, selectedIds,
                 dispatch, downloads>>
  /\ UNCHANGED dialogVars
  /\ UNCHANGED <<queryVars, entryVars, opsDone>>

(***************************************************************************)
(* The application                                                         *)
(***************************************************************************)
Next ==
  \/ Boot
  \/ Reload
  \/ Tick
  \/ OpenAddModal
  \/ \E id \in SeqIds(tasks) : OpenEditModal(id)
  \/ CloseModal
  \/ \E form \in FormInputs : SaveModal(form)
  \/ \E id \in SeqIds(tasks) : ToggleStar(id)
  \/ \E id \in SeqIds(tasks) : ToggleComplete(id)
  \/ \E a, b \in SeqIds(tasks) : ReorderDrop(a, b)
  \/ \E id \in SeqIds(tasks) : ToggleSelect(id)
  \/ BulkComplete
  \/ BulkDeselect
  \/ \E id \in SeqIds(tasks) : ConfirmDelete(id)
  \/ BulkDeleteClick
  \/ ClearDataClick
  \/ ClickOK
  \/ ClickCancel
  \/ OverlayClick
  \/ EscapeKey
  \/ RunListener
  \/ \E f \in PickableFiles : ImportFile(f)
  \/ \E f \in reading : ReaderOnload(f)

Spec == Init /\ [][Next]_vars

(***************************************************************************)
(* The application with the JSON export, on a profile that holds tasks     *)
(***************************************************************************)
\* a profile whose user added two tasks and completed the later one
UsedStore ==
  StorageSaveTasks(EmptiedStore,
    << [createTask([NoData EXCEPT !.title = <<"call">>, !.order = 1,
                                  !.tags = << <<"work">> >>, !.starred = TRUE,
                                  !.dueAt = AddDays(1, 1)], 0, 2)
          EXCEPT !.completedAt = 0],
       createTask([NoData EXCEPT !.title = <<"milk">>, !.priority = "high",
                                 !.order = 0], 0, 1) >>)

InitExport ==
  /\ PageClosed
  /\ now = 0
  /\ ls = UsedStore

\* backing up, emptying or changing the collection, restoring
NextExport ==
  \/ Boot
  \/ Reload
  \/ Tick
  \/ ExportJSON
  \/ \E id \in SeqIds(tasks) : ToggleComplete(id)
  \/ \E a, b \in SeqIds(tasks) : ReorderDrop(a, b)
  \/ \E id \in SeqIds(tasks) : ConfirmDelete(id)
  \/ ClearDataClick
  \/ ClickOK
  \/ ClickCancel
  \/ RunListener
  \/ \E f \in PickableFiles : ImportFile(f)
  \/ \E f \in reading : ReaderOnload(f)

SpecExport == InitExport /\ [][NextExport]_vars

(***************************************************************************)
(* Persistence (C1, C2)                                                    *)
(***************************************************************************)
\* C1: closing and reopening the page leaves the in-memory task list as it
\* was just before the reload, whatever the user did before (clear-all-data
\* included).
C1_TasksSurviveReload == [][lastOp' = "reload" => tasks' = tasks]_vars

\* the handlers that change the collection and run to completion
WriteOps ==
  {"addTask", "updateTask", "deleteTask", "bulkDelete", "toggleComplete",
   "bulkComplete", "reorderTasks", "import"}

\* C2: when a create, update, delete, bulk delete, completion, bulk
\* completion, reorder or confirmed import has run to completion, the array
\* stored under tf_tasks equals state.tasks.
C2_WriteThrough == lastOp \in WriteOps => ls.tf_tasks = StringifyTasks(tasks)

\* a completion has just been written through on a collection of two tasks
C2_Witness ==
  /\ lastOp = "toggleComplete"
  /\ Len(tasks) = 2
  /\ \E i \in 1..Len(tasks) : tasks[i].completedAt # NULL
  /\ ls.tf_tasks.items = tasks

(***************************************************************************)
(* Import (C3, C4, C6)                                                     *)
(***************************************************************************)
\* C3: no two tasks of the collection have the same id, in every state
\* reachable by add, edit, delete, reorder, seed and import (of any JSON
\* array of task records).
C3_IdsUnique ==
  \A i, j \in 1..Len(tasks) : i # j => tasks[i].id # tasks[j].id

\* the step in which a confirmed import of a task array runs
ImportRuns ==
  /\ dispatch # <<>>
  /\ Head(dispatch).kind = "import"
  /\ Head(dispatch).isArray
  /\ lastOp' = "import"

\* the fields a record of an imported file can carry over
SameGivenFields(task, rec) ==
  /\ rec.id # NULL => task.id = rec.id
  /\ task.title = rec.title
  /\ task.description = rec.description
  /\ rec.createdAt # NULL => task.createdAt = rec.createdAt
  /\ task.dueAt = rec.dueAt
  /\ task.completedAt = rec.completedAt
  /\ rec.priority # "" => task.priority = rec.priority
  /\ task.tags = rec.tags
  /\ task.subtasks = rec.subtasks
  /\ rec.order # NULL => task.order = rec.order
  /\ task.starred = rec.starred
  /\ task.reminderAt = rec.reminderAt
  /\ task.metadata = rec.metadata

\* C4: a confirmed JSON import appends exactly the imported records whose id
\* is not in the collection, in the file's order, and skips the others; the
\* tasks already in the collection keep every field and their position.
C4_ImportMerges ==
  [][ImportRuns =>
       LET kept == SelectSeq(Head(dispatch).items,
                             LAMBDA r : r.id \notin SeqIds(tasks))
       IN /\ Len(tasks') = Len(tasks) + Len(kept)
          /\ SubSeq(tasks', 1, Len(tasks)) = tasks
          /\ \A k \in 1..Len(kept) : SameGivenFields(tasks'[Len(tasks) + k], kept[k])
     ]_vars

\* an import has skipped the record whose id (101) was in the collection and
\* appended the other record of the same file
C4_Witness ==
  /\ lastOp = "import"
  /\ Len(tasks) = 3
  /\ tasks[1].id = 101 /\ tasks[1].title = <<"imported">>
  /\ tasks[3].id # 101 /\ tasks[3].completedAt = 0 /\ tasks[3].title = <<>>
  /\ \A i \in 1..Len(tasks) : tasks[i].title # <<"other">>

\* the step in which reader.onload rejected the file
ImportFails ==
  /\ reading' # reading
  /\ lastOp' \in {"importNotJson", "importInvalid"}

\* the step in which the user cancels the import confirmation: the Cancel
\* button, a click outside the dialog, or Escape
ImportCancelled ==
  /\ confirmOpen /\ ~confirmOpen'
  /\ lastOp' \in {"clickCancel", "overlayClick", "escape"}
  /\ \E i \in 1..Len(okListeners) : okListeners[i].kind = "import"

\* C6 as stated: a file that is not .json, or whose text is not parseable
\* JSON, leaves state.tasks and the stored tasks unchanged and shows exactly
\* one toast of type warning; cancelling the import confirmation leaves the
\* collection unchanged.
C6_FailedImportWarns ==
  [][/\ ImportFails => (tasks' = tasks /\ ls' = ls /\ toasts' = <<"warning">>)
     /\ ImportCancelled => (tasks' = tasks /\ ls' = ls)
    ]_vars

\* C6, amended: the single toast is of type warning for a file that is not
\* .json and of type danger for a .json file whose text does not parse; in
\* both cases, and when the import confirmation is cancelled, state.tasks and
\* the stored tasks are unchanged.
C6_FailedImportAtomic ==
  [][/\ ImportFails =>
          /\ tasks' = tasks /\ ls' = ls
          /\ toasts' = IF lastOp' = "importNotJson" THEN <<"warning">> ELSE <<"danger">>
     /\ ImportCancelled => (tasks' = tasks /\ ls' = ls)
    ]_vars

\* a rejected .json file has left a collection of two tasks as it was
C6_Witness ==
  /\ lastOp = "importInvalid"
  /\ toasts = <<"danger">>
  /\ Len(tasks) = 2
  /\ ls.tf_tasks.items = tasks

(***************************************************************************)
(* Export / import round trip (C5)                                         *)
(***************************************************************************)
\* the step in which the confirmed import of the exported document runs on
\* an empty collection
RestoreRuns ==
  /\ ImportRuns
  /\ downloads # NoFile
  /\ Head(dispatch).items = downloads.items
  /\ tasks = <<>>

\* C5: importing the document exportJSON wrote into an empty collection
\* gives the exported tasks in the exported sequence, each with the same id
\* and the same value of every field but updatedAt.
C5_RoundTrip ==
  [][RestoreRuns =>
       /\ Len(tasks') = Len(downloads.items)
       /\ \A i \in 1..Len(tasks') :
            [tasks'[i] EXCEPT !.updatedAt = NULL] =
              [downloads.items[i] EXCEPT !.updatedAt = NULL]
     ]_vars

\* the two exported tasks were restored, at a later instant, after the store
\* had been cleared
C5_Witness ==
  /\ lastOp = "import"
  /\ ~ls.tf_seeded
  /\ Len(downloads.items) = 2
  /\ Len(tasks) = 2
  /\ \A i \in 1..2 : tasks[i].id = downloads.items[i].id
  /\ \E i \in 1..2 : tasks[i].order = 0
  /\ \E i \in 1..2 : tasks[i].updatedAt # downloads.items[i].updatedAt


(***************************************************************************)
(* Startup on any stored content (C7)                                      *)
(***************************************************************************)
\* texts the key tf_tasks may hold: none, '', text JSON.parse rejects, JSON
\* values that are no array, an array of null, arrays of tasks
StoredTaskTexts ==
  { NoItem,
    [kind |-> "empty", items |-> <<>>],
    [kind |-> "bad", items |-> <<>>],
    [kind |-> "null", items |-> <<>>],
    [kind |-> "number", items |-> <<>>],
    [kind |-> "string", items |-> <<>>],
    [kind |-> "object", items |-> <<>>],
    [kind |-> "arrayOfNull", items |-> <<>>],
    StringifyTasks(<<>>),
    UsedStore.tf_tasks }

\* texts the key tf_settings may hold; "ab" spreads to {0: "a", 1: "b"}
StoredSettingsTexts ==
  { NoSettingsItem,
    [kind |-> "empty", obj |-> EmptyObj],
    [kind |-> "bad", obj |-> EmptyObj],
    [kind |-> "null", obj |-> EmptyObj],
    [kind |-> "number", obj |-> EmptyObj],
    [kind |-> "string", obj |-> ("0" :> "a") @@ ("1" :> "b")],
    [kind |-> "array", obj |-> EmptyObj],
    [kind |-> "object", obj |-> [theme |-> "light", defaultView |-> ""]],
    [kind |-> "object", obj |-> [defaultSort |-> "alpha", extra |-> "1"]] }

InitStorage ==
  /\ PageClosed
  /\ now = 0
  /\ ls \in [tf_tasks : StoredTaskTexts, tf_settings : StoredSettingsTexts,
             tf_seeded : BOOLEAN]

NextStorage ==
  \/ Boot
  \/ Reload

SpecStorage == InitStorage /\ [][NextStorage]_vars

\* the types of a value that is an array
ArrayTypes == {"array", "arrayOfNull"}

\* C7: whatever tf_tasks and tf_settings hold, startup does not fail:
\* Storage.getTasks returns an array (empty when the text is missing or
\* malformed) and Storage.getSettings returns an object holding every default
\* key, a stored key overriding only its own default.
C7_StartupNeverFails ==
  page # "closed" =>
    /\ page = "open"
    /\ tasksType \in ArrayTypes
    /\ ls.tf_tasks.kind \in {"missing", "empty", "bad"} => tasks = <<>>
    /\ DOMAIN SettingsDefaults \subseteq DOMAIN settings
    /\ \A k \in DOMAIN SettingsDefaults :
         settings[k] = IF k \in DOMAIN OwnProps(ls.tf_settings)
                       THEN ls.tf_settings.obj[k] ELSE SettingsDefaults[k]

(***************************************************************************)
(* Filter and sort pipeline                                                *)
(***************************************************************************)
\* the letters toLowerCase changes, and what it makes of them
UpperCase ==
  <<"A", "B", "C", "D", "E", "F", "G", "H", "I", "J", "K", "L", "M",
    "N", "O", "P", "Q", "R", "S", "T", "U", "V", "W", "X", "Y", "Z">>

LowerCase ==
  <<"a", "b", "c", "d", "e", "f", "g", "h", "i", "j", "k", "l", "m",
    "n", "o", "p", "q", "r", "s", "t", "u", "v", "w", "x", "y", "z">>

\* the lower-case form of each upper-case letter
LowerOf ==
  [c \in Range(UpperCase) |-> LowerCase[CHOOSE i \in 1..26 : UpperCase[i] = c]]

\* the lower-case form of one character
LowerSym(c) == IF c \in DOMAIN LowerOf THEN LowerOf[c] ELSE c

\* String.prototype.toLowerCase
ToLowerCase(s) == [i \in 1..Len(s) |-> LowerSym(s[i])]

\* String.prototype.includes
Includes(s, q) ==
  \E i \in 0..(Len(s) - Len(q)) : SubSeq(s, i + 1, i + Len(q)) = q

\* the view filter, with a completed view that keeps every task
ViewFilterKeepsAll(ts, view, t) ==
  LET todayStart == StartOfDay(t)
      todayEnd   == AddDays(todayStart, 1)
      weekEnd    == AddDays(todayStart, 7)
  IN CASE view = "today" ->
            SelectSeq(ts, LAMBDA x : /\ x.completedAt = NULL /\ x.dueAt # NULL
                                     /\ x.dueAt >= todayStart /\ x.dueAt < todayEnd)
       [] view = "upcoming" ->
            SelectSeq(ts, LAMBDA x : /\ x.completedAt = NULL /\ x.dueAt # NULL
                                     /\ x.dueAt >= todayEnd /\ x.dueAt < weekEnd)
       [] view = "all" -> SelectSeq(ts, LAMBDA x : x.completedAt = NULL)
       [] view = "starred" -> SelectSeq(ts, LAMBDA x : x.starred /\ x.completedAt = NULL)
       [] OTHER -> ts

\* the view filter with a today view that takes the start of tomorrow in
ViewFilterClosed(ts, view, t) ==
  LET todayStart == StartOfDay(t)
      todayEnd   == AddDays(todayStart, 1)
      weekEnd    == AddDays(todayStart, 7)
  IN CASE view = "today" ->
            SelectSeq(ts, LAMBDA x : /\ x.completedAt = NULL /\ x.dueAt # NULL
                                     /\ x.dueAt >= todayStart /\ x.dueAt <= todayEnd)
       [] view = "upcoming" ->
            SelectSeq(ts, LAMBDA x : /\ x.completedAt = NULL /\ x.dueAt # NULL
                                     /\ x.dueAt >= todayEnd /\ x.dueAt < weekEnd)
       [] view = "all" -> SelectSeq(ts, LAMBDA x : x.completedAt = NULL)
       [] view = "starred" -> SelectSeq(ts, LAMBDA x : x.starred /\ x.completedAt = NULL)
       [] view = "completed" -> SelectSeq(ts, LAMBDA x : x.completedAt # NULL)
       [] OTHER -> ts

\* getFilteredTasks: the view filter
ViewFilter(ts, view, t) ==
  LET todayStart == StartOfDay(t)
      todayEnd   == AddDays(todayStart, 1)
      weekEnd    == AddDays(todayStart, 7)
  IN CASE view = "today" ->
            SelectSeq(ts, LAMBDA x : /\ x.completedAt = NULL /\ x.dueAt # NULL
                                     /\ x.dueAt >= todayStart /\ x.dueAt < todayEnd)
       [] view = "upcoming" ->
            SelectSeq(ts, LAMBDA x : /\ x.completedAt = NULL /\ x.dueAt # NULL
                                     /\ x.dueAt >= todayEnd /\ x.dueAt < weekEnd)
       [] view = "all" -> SelectSeq(ts, LAMBDA x : x.completedAt = NULL)
       [] view = "starred" -> SelectSeq(ts, LAMBDA x : x.starred /\ x.completedAt = NULL)
       [] view = "completed" -> SelectSeq(ts, LAMBDA x : x.completedAt # NULL)
       [] OTHER -> ts

\* the tag filter applied to state.tasks instead of the view's tasks
TagFilterWholeCollection(ts, tag) ==
  IF tag # <<>> THEN SelectSeq(tasks, LAMBDA x : tag \in Range(x.tags)) ELSE ts

\* getFilteredTasks: the tag filter
TagFilter(ts, tag) ==
  IF tag # <<>> THEN SelectSeq(ts, LAMBDA x : tag \in Range(x.tags)) ELSE ts

\* getFilteredTasks: the priority filter
PriorityFilter(ts, prios) ==
  IF Len(prios) > 0 THEN SelectSeq(ts, LAMBDA x : x.priority \in Range(prios)) ELSE ts

\* the due date filter with a bucket it does not know keeping no task
DueFilterStrict(ts, due, t) ==
  LET todayStart == StartOfDay(t)
      todayEnd   == AddDays(todayStart, 1)
      weekEnd    == AddDays(todayStart, 7)
  IN CASE due = "today" ->
            SelectSeq(ts, LAMBDA x : x.dueAt # NULL /\ x.dueAt >= todayStart /\ x.dueAt < todayEnd)
       [] due = "week" ->
            SelectSeq(ts, LAMBDA x : x.dueAt # NULL /\ x.dueAt >= todayStart /\ x.dueAt < weekEnd)
       [] due = "overdue" ->
            SelectSeq(ts, LAMBDA x : x.dueAt # NULL /\ x.dueAt < t /\ x.completedAt = NULL)
       [] due = "" -> ts
       [] OTHER -> <<>>

\* the due date filter with a week bucket that starts tomorrow
DueFilterWeekAhead(ts, due, t) ==
  LET todayStart == StartOfDay(t)
      todayEnd   == AddDays(todayStart, 1)
      weekEnd    == AddDays(todayStart, 7)
  IN CASE due = "today" ->
            SelectSeq(ts, LAMBDA x : x.dueAt # NULL /\ x.dueAt >= todayStart /\ x.dueAt < todayEnd)
       [] due = "week" ->
            SelectSeq(ts, LAMBDA x : x.dueAt # NULL /\ x.dueAt >= todayEnd /\ x.dueAt < weekEnd)
       [] due = "overdue" ->
            SelectSeq(ts, LAMBDA x : x.dueAt # NULL /\ x.dueAt < t /\ x.completedAt = NULL)
       [] OTHER -> ts

\* getFilteredTasks: the due date filter
DueFilter(ts, due, t) ==
  LET todayStart == StartOfDay(t)
      todayEnd   == AddDays(todayStart, 1)
      weekEnd    == AddDays(todayStart, 7)
  IN CASE due = "today" ->
            SelectSeq(ts, LAMBDA x : x.dueAt # NULL /\ x.dueAt >= todayStart /\ x.dueAt < todayEnd)
       [] due = "week" ->
            SelectSeq(ts, LAMBDA x : x.dueAt # NULL /\ x.dueAt >= todayStart /\ x.dueAt < weekEnd)
       [] due = "overdue" ->
            SelectSeq(ts, LAMBDA x : x.dueAt # NULL /\ x.dueAt < t /\ x.completedAt = NULL)
       [] OTHER -> ts

\* getFilteredTasks: the search filter
SearchFilter(ts, query) ==
  IF query # <<>>
  THEN LET q == ToLowerCase(query)
       IN SelectSeq(ts, LAMBDA x :
            \/ Includes(ToLowerCase(x.title), q)
            \/ Includes(ToLowerCase(x.description), q)
            \/ \E i \in 1..Len(x.tags) : Includes(ToLowerCase(x.tags[i]), q))
  ELSE ts

\* the sign of a difference
Sign(n) == IF n < 0 THEN -1 ELSE IF n > 0 THEN 1 ELSE 0

\* lexicographic comparison of two sequences of numbers
LexCompare(x, y) ==
  LET n == IF Len(x) < Len(y) THEN Len(x) ELSE Len(y)
      diff == {i \in 1..n : x[i] # y[i]}
  IN IF diff # {} THEN Sign(x[Min(diff)] - y[Min(diff)])
     ELSE Sign(Len(x) - Len(y))

\* collation weight of a symbol: its letter
LetterWeight(c) ==
  CASE c = " " -> 0 [] c \in {"a", "A"} -> 1 [] c \in {"b", "B"} -> 2 [] OTHER -> 3

\* collation weight of a symbol: its case, lower case first
CaseWeight(c) == IF c \in {"A", "B"} THEN 1 ELSE 0

\* String.prototype.localeCompare: by letters, then by case
LocaleCompare(a, b) ==
  LET letters == LexCompare([i \in 1..Len(a) |-> LetterWeight(a[i])],
                            [i \in 1..Len(b) |-> LetterWeight(b[i])])
  IN IF letters # 0 THEN letters
     ELSE LexCompare([i \in 1..Len(a) |-> CaseWeight(a[i])],
                     [i \in 1..Len(b) |-> CaseWeight(b[i])])

\* the priority sort's map; a priority outside it makes the difference NaN
PriorityRank == [high |-> 0, medium |-> 1, low |-> 2]

\* the comparator with the undated tasks first in the dueDate mode
CompareUndatedFirst(a, b, sort) ==
  CASE sort = "dueDate" ->
         IF a.dueAt = NULL /\ b.dueAt = NULL THEN 0
         ELSE IF a.dueAt = NULL THEN -1
         ELSE IF b.dueAt = NULL THEN 1
         ELSE Sign(a.dueAt - b.dueAt)
    [] sort = "priority" ->
         IF a.priority \in DOMAIN PriorityRank /\ b.priority \in DOMAIN PriorityRank
         THEN Sign(PriorityRank[a.priority] - PriorityRank[b.priority])
         ELSE 0
    [] sort = "created" -> Sign(b.createdAt - a.createdAt)
    [] sort = "alpha" -> LocaleCompare(a.title, b.title)
    [] OTHER -> Sign(a.order - b.order)

\* the comparator of getFilteredTasks, as the sign sort() reads (NaN as 0)
Compare(a, b, sort) ==
  CASE sort = "dueDate" ->
         IF a.dueAt = NULL /\ b.dueAt = NULL THEN 0
         ELSE IF a.dueAt = NULL THEN 1
         ELSE IF b.dueAt = NULL THEN -1
         ELSE Sign(a.dueAt - b.dueAt)
    [] sort = "priority" ->
         IF a.priority \in DOMAIN PriorityRank /\ b.priority \in DOMAIN PriorityRank
         THEN Sign(PriorityRank[a.priority] - PriorityRank[b.priority])
         ELSE 0
    [] sort = "created" -> Sign(b.createdAt - a.createdAt)
    [] sort = "alpha" -> LocaleCompare(a.title, b.title)
    [] OTHER -> Sign(a.order - b.order)

\* an insertion that puts x before the elements it compares equal to
InsertBeforeTies(sorted, x, sort) ==
  LET smaller == {i \in 1..Len(sorted) : Compare(sorted[i], x, sort) < 0}
      k == IF smaller = {} THEN 0 ELSE Max(smaller)
  IN SubSeq(sorted, 1, k) \o <<x>> \o SubSeq(sorted, k + 1, Len(sorted))

\* Array.prototype.sort is stable: x goes after every element not greater
Insert(sorted, x, sort) ==
  LET notGreater == {i \in 1..Len(sorted) : Compare(sorted[i], x, sort) <= 0}
      k == IF notGreater = {} THEN 0 ELSE Max(notGreater)
  IN SubSeq(sorted, 1, k) \o <<x>> \o SubSeq(sorted, k + 1, Len(sorted))

RECURSIVE Sort(_, _)
\* tasks.sort(comparator)
Sort(ts, sort) ==
  IF ts = <<>> THEN <<>>
  ELSE Insert(Sort(SubSeq(ts, 1, Len(ts) - 1), sort), ts[Len(ts)], sort)

\* getFilteredTasks before its sort
Filtered(ts, view, tag, prios, due, query, t) ==
  SearchFilter(DueFilter(PriorityFilter(TagFilter(ViewFilter(ts, view, t), tag),
                                        prios), due, t), query)

\* getFilteredTasks()
getFilteredTasks ==
  Sort(Filtered(tasks, currentView, filterTag, filterPriorities, filterDue,
                searchQuery, now), sortBy)


(***************************************************************************)
(* Queries on a collection                                                 *)
(***************************************************************************)
\* the instant of the queries: one tick into the second day
QueryNow == DayLen + 1

\* tasks a collection may hold: due today, undated and completed, due
\* tomorrow, overdue; the first two agree on title, priority, order and
\* creation instant
QueryPool ==
  { createTask([NoData EXCEPT !.title = <<"a", "b">>, !.priority = "high",
                              !.dueAt = QueryNow + 1, !.starred = TRUE,
                              !.tags = << <<"a">> >>, !.order = 0, !.createdAt = 0],
               0, 1),
    createTask([NoData EXCEPT !.title = <<"a", "b">>, !.priority = "high",
                              !.completedAt = 1, !.starred = TRUE,
                              !.order = 0, !.createdAt = 0],
               1, 2),
    createTask([NoData EXCEPT !.title = <<"A">>, !.description = <<"b">>,
                              !.priority = "low", !.dueAt = AddDays(QueryNow, 1),
                              !.tags = << <<"a">>, <<"B">> >>, !.order = 1],
               1, 3),
    createTask([NoData EXCEPT !.title = <<"b">>, !.dueAt = 1,
                              !.tags = << <<"B">> >>, !.order = 1],
               1, 4) }

\* the collections: up to QLen different tasks of the pool, in any sequence
QueryCollections ==
  UNION { {ts \in [1..n -> QueryPool] : \A i, j \in 1..n : i # j => ts[i] # ts[j]}
          : n \in 0..QLen }

Views == {"today", "upcoming", "all", "starred", "completed", "settings"}
SortModes == {"custom", "dueDate", "priority", "created", "alpha"}
Priorities == <<"high", "medium", "low">>
DueBuckets == {"today", "week", "overdue"}
SearchTexts == {<<>>, <<"B">>}

\* the page showing a collection, no filter set
InitQuery ==
  /\ page = "open"
  /\ tasks \in QueryCollections
  /\ tasksType = "array"
  /\ settings = SettingsDefaults
  /\ ls = StorageSaveTasks(EmptiedStore, tasks)
  /\ now = QueryNow
  /\ selectedIds = {}
  /\ modalOpen = FALSE
  /\ editingTaskId = NULL
  /\ confirmOpen = FALSE
  /\ okListeners = <<>>
  /\ dispatch = <<>>
  /\ reading = {}
  /\ downloads = NoFile
  /\ toasts = <<>>
  /\ lastOp = "boot"
  /\ opsDone = 0
  /\ currentView = "today"
  /\ sortBy = "custom"
  /\ filterTag = <<>>
  /\ filterPriorities = <<>>
  /\ filterDue = ""
  /\ searchQuery = <<>>
  /\ dialog = EmptyDialog
  /\ parsed = NoResult
  /\ searchInput = <<>>
  /\ timers = <<>>
  /\ worker = NoWorker

\* a handler of the toolbar or the sidebar: it ends in renderTaskList() and
\* leaves the collection alone
QueryFrame ==
  /\ toasts' = <<>>
  /\ lastOp' = "renderTaskList"
  /\ UNCHANGED <<page, tasks, tasksType, settings, ls, now, modalOpen,
                 editingTaskId, confirmOpen, okListeners, dispatch, reading,
                 downloads, opsDone>>
  /\ UNCHANGED entryVars

\* navigateTo(view)
navigateTo(view) ==
  /\ currentView' = view
  /\ selectedIds' = {}

\* a click on a [data-view] item
NavigateTo(view) ==
  /\ Foreground
  /\ navigateTo(view)
  /\ QueryFrame
  /\ UNCHANGED <<sortBy, filterTag, filterPriorities, filterDue, searchQuery>>

\* #sort-select change
SortChange(mode) ==
  /\ Foreground
  /\ sortBy' = mode
  /\ QueryFrame
  /\ UNCHANGED <<selectedIds, currentView, filterTag, filterPriorities, filterDue,
                 searchQuery>>

\* syncFilters() after a .filter-priority box was ticked or unticked: the
\* checked boxes in document order
TogglePriority(p) ==
  /\ Foreground
  /\ filterPriorities' =
       SelectSeq(Priorities,
                 LAMBDA x : (x \in Range(filterPriorities)) # (x = p))
  /\ QueryFrame
  /\ UNCHANGED <<selectedIds, currentView, sortBy, filterTag, filterDue, searchQuery>>

\* syncFilters() after a .filter-due radio was chosen
ChooseDue(d) ==
  /\ Foreground
  /\ filterDue # d
  /\ filterDue' = d
  /\ QueryFrame
  /\ UNCHANGED <<selectedIds, currentView, sortBy, filterTag, filterPriorities,
                 searchQuery>>

\* clearFilters()
ClearFilters ==
  /\ Foreground
  /\ filterPriorities' = <<>>
  /\ filterDue' = ""
  /\ QueryFrame
  /\ UNCHANGED <<selectedIds, currentView, sortBy, filterTag, searchQuery>>

\* the tags renderTagsNav shows
AllTags == UNION {Range(tasks[i].tags) : i \in 1..Len(tasks)}

\* a click on a tag of the sidebar
TagClick(tag) ==
  /\ Foreground
  /\ tag \in AllTags
  /\ filterTag' = IF filterTag = tag THEN <<>> ELSE tag
  /\ navigateTo("all")
  /\ QueryFrame
  /\ UNCHANGED <<sortBy, filterPriorities, filterDue, searchQuery>>

\* the timer handleSearch(q) set fires
SearchFires(q) ==
  /\ Foreground
  /\ searchQuery' = q
  /\ IF currentView = "settings" THEN navigateTo("all")
     ELSE UNCHANGED <<currentView, selectedIds>>
  /\ QueryFrame
  /\ UNCHANGED <<sortBy, filterTag, filterPriorities, filterDue>>

NextQuery ==
  \/ \E view \in Views : NavigateTo(view)
  \/ \E mode \in SortModes : SortChange(mode)
  \/ \E p \in Range(Priorities) : TogglePriority(p)
  \/ \E d \in DueBuckets : ChooseDue(d)
  \/ ClearFilters
  \/ \E tag \in AllTags : TagClick(tag)
  \/ \E q \in SearchTexts : SearchFires(q)

SpecQuery == InitQuery /\ [][NextQuery]_vars

(***************************************************************************)
(* Monotonic filtering (C8)                                                *)
(***************************************************************************)
\* how many tasks getFilteredTasks returns when the tag, priority and due
\* filters are as given and the rest of the query is the state's
ResultSize(tag, prios, due) ==
  Len(Sort(Filtered(tasks, currentView, tag, prios, due, searchQuery, now), sortBy))

\* C8 as stated: adding one constraint to the query (one more priority
\* selected, the tag filter set, a due bucket set) never makes
\* getFilteredTasks return more tasks.
C8_Monotonic ==
  /\ \A p \in Range(Priorities) \ Range(filterPriorities) :
       ResultSize(filterTag, Append(filterPriorities, p), filterDue)
         <= Len(getFilteredTasks)
  /\ filterTag = <<>> =>
       \A tag \in AllTags :
         ResultSize(tag, filterPriorities, filterDue) <= Len(getFilteredTasks)
  /\ filterDue = "" =>
       \A d \in DueBuckets :
         ResultSize(filterTag, filterPriorities, d) <= Len(getFilteredTasks)

\* C8, amended: selecting a first priority while none is selected, setting
\* the tag filter, or setting a due bucket never makes getFilteredTasks
\* return more tasks; a further priority, added to a selection that is not
\* empty, never makes it return fewer.
C8_MonotonicFirst ==
  /\ \A p \in Range(Priorities) \ Range(filterPriorities) :
       IF filterPriorities = <<>>
       THEN ResultSize(filterTag, <<p>>, filterDue) <= Len(getFilteredTasks)
       ELSE ResultSize(filterTag, Append(filterPriorities, p), filterDue)
              >= Len(getFilteredTasks)
  /\ filterTag = <<>> =>
       \A tag \in AllTags :
         ResultSize(tag, filterPriorities, filterDue) <= Len(getFilteredTasks)
  /\ filterDue = "" =>
       \A d \in DueBuckets :
         ResultSize(filterTag, filterPriorities, d) <= Len(getFilteredTasks)

\* syncFilters has just set a first priority, and the list is shorter than
\* it would be without it, though not empty
C8_Witness ==
  /\ lastOp = "renderTaskList"
  /\ Len(filterPriorities) = 1
  /\ Len(getFilteredTasks) > 0
  /\ Len(getFilteredTasks) < ResultSize(filterTag, <<>>, filterDue)

(***************************************************************************)
(* Stable sort (C9)                                                        *)
(***************************************************************************)
\* how often x occurs in s
Count(s, x) == Cardinality({i \in 1..Len(s) : s[i] = x})

IsPermutation(s, r) ==
  /\ Len(s) = Len(r)
  /\ \A x \in Range(s) \cup Range(r) : Count(s, x) = Count(r, x)

\* the sort key of a task in a sort mode
SortKey(task, sort) ==
  CASE sort = "dueDate" -> task.dueAt
    [] sort = "priority" -> PriorityRank[task.priority]
    [] sort = "created" -> task.createdAt
    [] sort = "alpha" -> <<[i \in 1..Len(task.title) |-> LetterWeight(task.title[i])],
                           [i \in 1..Len(task.title) |-> CaseWeight(task.title[i])]>>
    [] OTHER -> task.order

NoFilters ==
  /\ filterTag = <<>>
  /\ filterPriorities = <<>>
  /\ filterDue = ""
  /\ searchQuery = <<>>
  /\ dialog = EmptyDialog
  /\ parsed = NoResult
  /\ searchInput = <<>>
  /\ timers = <<>>
  /\ worker = NoWorker

\* C10: in the completed view with no filter set, getFilteredTasks returns
\* exactly the tasks whose completedAt is not null.
C10_CompletedView ==
  (currentView = "completed" /\ NoFilters) =>
    /\ IsPermutation(getFilteredTasks, SelectSeq(tasks, LAMBDA x : x.completedAt # NULL))
    /\ \A i \in 1..Len(getFilteredTasks) : getFilteredTasks[i].completedAt # NULL

\* the completed view shows the completed task of a collection that also
\* holds a starred task due today and an overdue one
C10_Witness ==
  /\ currentView = "completed" /\ NoFilters
  /\ lastOp = "renderTaskList"
  /\ Len(tasks) = 3
  /\ Len(getFilteredTasks) = 1
  /\ \E i \in 1..Len(tasks) : tasks[i].completedAt = NULL /\ tasks[i].starred
  /\ \E i \in 1..Len(tasks) : tasks[i].completedAt = NULL /\ tasks[i].dueAt < now


(***************************************************************************)
(* Date windows (C11, C12, C13)                                            *)
(***************************************************************************)
\* due instants around the window boundaries of the second day: none, the
\* last tick of yesterday, the start of today, the last tick of today, the
\* start of tomorrow, the last tick of the week, the start of today + 7 days
WindowDues ==
  {NULL, DayLen - 1, DayLen, 2 * DayLen - 1, 2 * DayLen, 8 * DayLen - 1, 8 * DayLen}

\* the task with the given id, due instant and completion instant
WindowTask(id, due, done) ==
  createTask([NoData EXCEPT !.title = <<"a">>, !.dueAt = due, !.completedAt = done,
                            !.order = id - 1, !.createdAt = 0],
             0, id)

\* the collections: up to WLen tasks, each with any of the due instants,
\* completed or not
WindowCollections ==
  UNION { {[i \in 1..n |-> WindowTask(i, d[i], c[i])] :
             d \in [1..n -> WindowDues], c \in [1..n -> {NULL, 1}]}
          : n \in 0..WLen }

\* the page showing a collection at the start of the second day or one tick
\* later, no filter set
InitWindows ==
  /\ page = "open"
  /\ tasks \in WindowCollections
  /\ tasksType = "array"
  /\ settings = SettingsDefaults
  /\ ls = StorageSaveTasks(EmptiedStore, tasks)
  /\ now \in {DayLen, DayLen + 1}
  /\ selectedIds = {}
  /\ modalOpen = FALSE
  /\ editingTaskId = NULL
  /\ confirmOpen = FALSE
  /\ okListeners = <<>>
  /\ dispatch = <<>>
  /\ reading = {}
  /\ downloads = NoFile
  /\ toasts = <<>>
  /\ lastOp = "boot"
  /\ opsDone = 0
  /\ currentView = "today"
  /\ sortBy = "custom"
  /\ filterTag = <<>>
  /\ filterPriorities = <<>>
  /\ filterDue = ""
  /\ searchQuery = <<>>
  /\ dialog = EmptyDialog
  /\ parsed = NoResult
  /\ searchInput = <<>>
  /\ timers = <<>>
  /\ worker = NoWorker

NextWindows ==
  \/ \E view \in Views : NavigateTo(view)
  \/ \E mode \in {"custom", "dueDate"} : SortChange(mode)
  \/ \E d \in DueBuckets : ChooseDue(d)
  \/ ClearFilters

SpecWindows == InitWindows /\ [][NextWindows]_vars

\* dueAt lies in [start of today, start of tomorrow)
DueToday(x) ==
  x.dueAt # NULL /\ StartOfDay(now) <= x.dueAt /\ x.dueAt < StartOfDay(now) + DayLen

\* dueAt lies in [start of tomorrow, start of today + 7 days)
DueUpcoming(x) ==
  /\ x.dueAt # NULL
  /\ StartOfDay(now) + DayLen <= x.dueAt
  /\ x.dueAt < StartOfDay(now) + 7 * DayLen

\* C11: with no other filter, view today returns exactly the incomplete
\* tasks due in [start of today, start of tomorrow), view upcoming exactly
\* the incomplete tasks due in [start of tomorrow, start of today + 7 days);
\* no task is in both, and an incomplete task due at the start of tomorrow
\* is in upcoming only.
C11_DateWindows ==
  LET today    == ViewFilter(tasks, "today", now)
      upcoming == ViewFilter(tasks, "upcoming", now)
  IN /\ (currentView = "today" /\ NoFilters) =>
          IsPermutation(getFilteredTasks,
                        SelectSeq(tasks, LAMBDA x : x.completedAt = NULL /\ DueToday(x)))
     /\ (currentView = "upcoming" /\ NoFilters) =>
          IsPermutation(getFilteredTasks,
                        SelectSeq(tasks, LAMBDA x : x.completedAt = NULL /\ DueUpcoming(x)))
     /\ Range(today) \cap Range(upcoming) = {}
     /\ \A i \in 1..Len(tasks) :
          (tasks[i].completedAt = NULL /\ tasks[i].dueAt = StartOfDay(now) + DayLen)
            => (tasks[i] \in Range(upcoming) /\ tasks[i] \notin Range(today))

\* the upcoming view shows the task due at the start of tomorrow and not the
\* task due one tick earlier
C11_Witness ==
  /\ currentView = "upcoming" /\ NoFilters
  /\ Len(tasks) = 2
  /\ tasks[1].dueAt = 2 * DayLen - 1 /\ tasks[1].completedAt = NULL
  /\ tasks[2].dueAt = 2 * DayLen /\ tasks[2].completedAt = NULL
  /\ getFilteredTasks = <<tasks[2]>>

\* only the due bucket is set
OnlyDueFilter ==
  filterTag = <<>> /\ filterPriorities = <<>> /\ searchQuery = <<>>

\* the tasks that reach the due date filter when only the due bucket is set
ReachDue == ViewFilter(tasks, currentView, now)

\* C12 as stated: bucket today keeps exactly the tasks due in the today
\* view's window, bucket week exactly the tasks due in the upcoming view's
\* window, bucket overdue exactly the tasks due strictly before the current
\* instant that are not completed.
C12_BucketsAsViews ==
  OnlyDueFilter =>
    /\ filterDue = "today" =>
         IsPermutation(getFilteredTasks, SelectSeq(ReachDue, DueToday))
    /\ filterDue = "week" =>
         IsPermutation(getFilteredTasks, SelectSeq(ReachDue, DueUpcoming))
    /\ filterDue = "overdue" =>
         IsPermutation(getFilteredTasks,
                       SelectSeq(ReachDue, LAMBDA x : /\ x.dueAt # NULL /\ x.dueAt < now
                                                      /\ x.completedAt = NULL))

\* dueAt lies in [start of today, start of today + 7 days)
DueThisWeek(x) ==
  /\ x.dueAt # NULL
  /\ StartOfDay(now) <= x.dueAt
  /\ x.dueAt < StartOfDay(now) + 7 * DayLen

\* C12, amended: bucket today keeps exactly the tasks due in the today
\* view's window, bucket week exactly the tasks due in [start of today,
\* start of today + 7 days), which is the today window and the upcoming
\* window together; bucket overdue exactly the tasks due strictly before the
\* current instant that are not completed.
C12_Buckets ==
  OnlyDueFilter =>
    /\ filterDue = "today" =>
         IsPermutation(getFilteredTasks, SelectSeq(ReachDue, DueToday))
    /\ filterDue = "week" =>
         /\ IsPermutation(getFilteredTasks, SelectSeq(ReachDue, DueThisWeek))
         /\ \A i \in 1..Len(tasks) :
              DueThisWeek(tasks[i]) <=> (DueToday(tasks[i]) \/ DueUpcoming(tasks[i]))
    /\ filterDue = "overdue" =>
         IsPermutation(getFilteredTasks,
                       SelectSeq(ReachDue, LAMBDA x : /\ x.dueAt # NULL /\ x.dueAt < now
                                                      /\ x.completedAt = NULL))

\* the week bucket keeps a completed task due at the start of today and
\* drops the task due at the start of today + 7 days
C12_Witness ==
  /\ currentView = "settings" /\ OnlyDueFilter
  /\ filterDue = "week"
  /\ Len(tasks) = 2
  /\ tasks[1].dueAt = StartOfDay(now) /\ tasks[1].completedAt # NULL
  /\ tasks[2].dueAt = StartOfDay(now) + 7 * DayLen
  /\ getFilteredTasks = <<tasks[1]>>

\* C13: with sort key dueDate, every task that has a dueAt comes before
\* every task that has none, and the tasks that have one are in ascending
\* order of due instant.
C13_DueDateSort ==
  sortBy = "dueDate" =>
    LET out == getFilteredTasks
    IN \A i, j \in 1..Len(out) :
         i < j => /\ out[i].dueAt = NULL => out[j].dueAt = NULL
                  /\ (out[i].dueAt # NULL /\ out[j].dueAt # NULL)
                       => out[i].dueAt <= out[j].dueAt

\* the dueDate sort has moved a dated task in front of the undated task
\* that precedes it in state.tasks
C13_Witness ==
  /\ sortBy = "dueDate"
  /\ Len(tasks) = 2
  /\ tasks[1].dueAt = NULL /\ tasks[2].dueAt # NULL
  /\ getFilteredTasks = <<tasks[2], tasks[1]>>


(***************************************************************************)
(* Query values outside their known sets (C14)                             *)
(***************************************************************************)
\* the views, buckets and sort keys getFilteredTasks has a branch for
KnownViews == {"today", "upcoming", "all", "starred", "completed"}
KnownDues == {"today", "week", "overdue"}
KnownSorts == {"custom", "dueDate", "priority", "created", "alpha"}

\* the page showing a collection under a query whose values (a stored
\* defaultView or defaultSort, the value of a filter control) may be unknown
InitUnknown ==
  /\ page = "open"
  /\ tasks \in QueryCollections
  /\ tasksType = "array"
  /\ settings = SettingsDefaults
  /\ ls = StorageSaveTasks(EmptiedStore, tasks)
  /\ now = QueryNow
  /\ selectedIds = {}
  /\ modalOpen = FALSE
  /\ editingTaskId = NULL
  /\ confirmOpen = FALSE
  /\ okListeners = <<>>
  /\ dispatch = <<>>
  /\ reading = {}
  /\ downloads = NoFile
  /\ toasts = <<>>
  /\ lastOp = "boot"
  /\ opsDone = 0
  /\ currentView \in {"today", "archive"}
  /\ sortBy \in {"custom", "newest"}
  /\ filterTag = <<>>
  /\ filterPriorities \in {<<>>, <<"urgent">>, <<"high", "urgent">>}
  /\ filterDue \in {"", "month"}
  /\ searchQuery = <<>>
  /\ dialog = EmptyDialog
  /\ parsed = NoResult
  /\ searchInput = <<>>
  /\ timers = <<>>
  /\ worker = NoWorker

NextUnknown ==
  \/ \E view \in Views : NavigateTo(view)
  \/ \E mode \in SortModes : SortChange(mode)
  \/ \E d \in DueBuckets : ChooseDue(d)
  \/ ClearFilters

SpecUnknown == InitUnknown /\ [][NextUnknown]_vars

\* the tasks after each stage of getFilteredTasks
AfterView == ViewFilter(tasks, currentView, now)
AfterTag == TagFilter(AfterView, filterTag)
AfterPriority == PriorityFilter(AfterTag, filterPriorities)
AfterDue == DueFilter(AfterPriority, filterDue, now)

\* the result is in ascending order of the order field
ByOrder ==
  \A i, j \in 1..Len(getFilteredTasks) :
    i < j => getFilteredTasks[i].order <= getFilteredTasks[j].order

Digits == <<"0", "1", "2", "3", "4", "5", "6", "7", "8", "9">>

\* [0-9]
IsDigit(c) == c \in Range(Digits)

\* parseInt of one digit
DigitVal(c) == (CHOOSE i \in 1..10 : Digits[i] = c) - 1

\* \w
IsWord(c) ==
  IsDigit(c) \/ c = "_" \/ c \in Range(LowerCase) \/ c \in Range(UpperCase)

\* \s
IsSpace(c) == c = " "

\* the character at position i is a word character
WordAt(s, i) == i \in 1..Len(s) /\ IsWord(s[i])

\* \b just before position i
BoundaryAt(s, i) == WordAt(s, i - 1) # WordAt(s, i)

\* the literal lit, in any letter case, stands at position i
LiteralAt(s, i, lit) ==
  /\ i >= 1 /\ i + Len(lit) - 1 <= Len(s)
  /\ \A k \in 1..Len(lit) : LowerSym(s[i + k - 1]) = lit[k]

\* \w* from position i: how many characters it takes
RECURSIVE WordRun(_, _)
WordRun(s, i) == IF WordAt(s, i) THEN 1 + WordRun(s, i + 1) ELSE 0

\* \s* from position i: how many characters it takes
RECURSIVE SpaceRun(_, _)
SpaceRun(s, i) ==
  IF i \in 1..Len(s) /\ IsSpace(s[i]) THEN 1 + SpaceRun(s, i + 1) ELSE 0

HighMarker == <<"!", "h", "i", "g", "h">>
MedMarker == <<"!", "m", "e", "d">>
MedTail == <<"i", "u", "m">>
LowMarker == <<"!", "l", "o", "w">>
TodayWord == <<"t", "o", "d", "a", "y">>
TomorrowWord == <<"t", "o", "m", "o", "r", "r", "o", "w">>
NextWeekWords == <<"n", "e", "x", "t", " ", "w", "e", "e", "k">>

\* \bword\b at position i: how many characters it takes, 0 when it does not match
KeywordAt(s, i, word) ==
  IF BoundaryAt(s, i) /\ LiteralAt(s, i, word) /\ BoundaryAt(s, i + Len(word))
  THEN Len(word) ELSE 0

\* the length of the match at position i of the expression called re, 0 when
\* it does not match there
MatchLen(re, s, i) ==
  CASE re = "high" -> IF LiteralAt(s, i, HighMarker) THEN 5 ELSE 0
    [] re = "med" ->
         IF LiteralAt(s, i, MedMarker)
         THEN IF LiteralAt(s, i + 4, MedTail) THEN 7 ELSE 4
         ELSE 0
    [] re = "low" -> IF LiteralAt(s, i, LowMarker) THEN 4 ELSE 0
    [] re = "tag" ->
         IF s[i] = "#" /\ WordRun(s, i + 1) > 0 THEN 1 + WordRun(s, i + 1) ELSE 0
    [] re = "today" -> KeywordAt(s, i, TodayWord)
    [] re = "tomorrow" -> KeywordAt(s, i, TomorrowWord)
    [] re = "next week" -> KeywordAt(s, i, NextWeekWords)

\* re.test(s)
Test(re, s) == \E i \in 1..Len(s) : MatchLen(re, s, i) > 0

\* s.replace(re, '') with the g flag, scanning from position i
RECURSIVE ReplaceFrom(_, _, _)
ReplaceFrom(re, s, i) ==
  IF i > Len(s) THEN <<>>
  ELSE LET n == MatchLen(re, s, i)
       IN IF n > 0 THEN ReplaceFrom(re, s, i + n)
          ELSE <<s[i]>> \o ReplaceFrom(re, s, i + 1)

ReplaceAll(re, s) == ReplaceFrom(re, s, 1)

\* the tags the #(\w+) callback pushes, scanning from position i
RECURSIVE TagsFrom(_, _)
TagsFrom(s, i) ==
  IF i > Len(s) THEN <<>>
  ELSE LET n == MatchLen("tag", s, i)
       IN IF n > 0 THEN <<SubSeq(s, i + 1, i + n - 1)>> \o TagsFrom(s, i + n)
          ELSE TagsFrom(s, i + 1)

\* /\b(\d{1,2})(?::(\d{2}))?\s*(am|pm)\b/i tried at position i
TimeAt(s, i) ==
  LET two  == i + 1 <= Len(s) /\ IsDigit(s[i + 1])
      h    == IF two THEN 10 * DigitVal(s[i]) + DigitVal(s[i + 1])
              ELSE DigitVal(s[i])
      j    == IF two THEN i + 2 ELSE i + 1
      mins == j + 2 <= Len(s) /\ s[j] = ":" /\ IsDigit(s[j + 1]) /\ IsDigit(s[j + 2])
      m    == IF mins THEN 10 * DigitVal(s[j + 1]) + DigitVal(s[j + 2]) ELSE 0
      k    == IF mins THEN j + 3 ELSE j
      a    == k + SpaceRun(s, k)
      mer  == IF LiteralAt(s, a, <<"a", "m">>) THEN "am"
              ELSE IF LiteralAt(s, a, <<"p", "m">>) THEN "pm" ELSE ""
  IN IF IsDigit(s[i]) /\ BoundaryAt(s, i) /\ mer # "" /\ BoundaryAt(s, a + 2)
     THEN [at |-> i, len |-> a + 2 - i, h |-> h, m |-> m, meridiem |-> mer]
     ELSE [at |-> 0, len |-> 0, h |-> 0, m |-> 0, meridiem |-> ""]

\* text.match(...): the leftmost match, at 0 when there is none
TimeMatch(s) ==
  LET hits == {i \in 1..Len(s) : TimeAt(s, i).len > 0}
  IN IF hits = {} THEN TimeAt(<<" ">>, 1) ELSE TimeAt(s, Min(hits))

\* s.replace(sub, ''): the first occurrence of the string sub is taken out
ReplaceFirst(s, sub) ==
  LET hits == {i \in 1..Len(s) : i + Len(sub) - 1 <= Len(s)
                                  /\ SubSeq(s, i, i + Len(sub) - 1) = sub}
  IN IF hits = {} THEN s
     ELSE SubSeq(s, 1, Min(hits) - 1) \o SubSeq(s, Min(hits) + Len(sub), Len(s))

\* s.replace(/\s{2,}/g, ' '), scanning from position i
RECURSIVE CollapseFrom(_, _)
CollapseFrom(s, i) ==
  IF i > Len(s) THEN <<>>
  ELSE LET n == SpaceRun(s, i)
       IN IF n >= 2 THEN <<" ">> \o CollapseFrom(s, i + n)
          ELSE <<s[i]>> \o CollapseFrom(s, i + 1)

\* the hour setHours is given
Hour24(h, meridiem) ==
  IF meridiem = "pm" /\ h # 12 THEN h + 12
  ELSE IF meridiem = "am" /\ h = 12 THEN 0 ELSE h

\* a parser whose first marker pass wins
MarkerPriorityFirstWins(text) ==
  IF Test("high", text) THEN "high"
  ELSE IF Test("med", text) THEN "medium"
  ELSE IF Test("low", text) THEN "low" ELSE "medium"

\* the priority the three marker callbacks leave in result.priority
MarkerPriority(text) ==
  LET p1 == IF Test("high", text) THEN "high" ELSE "medium"
      t1 == ReplaceAll("high", text)
      p2 == IF Test("med", t1) THEN "medium" ELSE p1
      t2 == ReplaceAll("med", t1)
  IN IF Test("low", t2) THEN "low" ELSE p2

\* the text after the three marker replacements
WithoutMarkers(text) ==
  ReplaceAll("low", ReplaceAll("med", ReplaceAll("high", text)))

\* a date chain that tries tomorrow first
DateKeywordTomorrowFirst(s) ==
  IF Test("tomorrow", s) THEN "tomorrow"
  ELSE IF Test("today", s) THEN "today"
  ELSE IF Test("next week", s) THEN "next week" ELSE ""

\* the branch of the date chain that is taken, "" when none is
DateKeyword(s) ==
  IF Test("today", s) THEN "today"
  ELSE IF Test("tomorrow", s) THEN "tomorrow"
  ELSE IF Test("next week", s) THEN "next week" ELSE ""

\* the due date the branch sets
KeywordDue(key, t) ==
  CASE key = "today" -> AtTime(t, 23, 59)
    [] key = "tomorrow" -> AtTime(AddDays(t, 1), 9, 0)
    [] key = "next week" -> AddDays(t, 7)
    [] OTHER -> NULL

\* the text the branch leaves
WithoutKeyword(key, s) == IF key = "" THEN s ELSE ReplaceAll(key, s)

\* d.setHours(h, m, 0, 0) with the matched time
SetHours(d, timeMatch) ==
  AtTime(d, Hour24(timeMatch.h, timeMatch.meridiem), timeMatch.m)

\* a parser that applies a time phrase whether or not a date is set
TimedWithoutDate(timeMatch, d) == timeMatch.len > 0

\* `timeMatch && result.dueAt`
Timed(timeMatch, d) == timeMatch.len > 0 /\ d # NULL

\* parseNLP(text) at instant t
parseNLP(text, t) ==
  LET t3 == WithoutMarkers(text)
      t4 == ReplaceAll("tag", t3)
      key == DateKeyword(t4)
      d5 == KeywordDue(key, t)
      t5 == WithoutKeyword(key, t4)
      timeMatch == TimeMatch(t5)
      timed == Timed(timeMatch, d5)
      t6 == IF timed
            THEN ReplaceFirst(t5, SubSeq(t5, timeMatch.at,
                                         timeMatch.at + timeMatch.len - 1))
            ELSE t5
  IN [title |-> Trim(CollapseFrom(t6, 1)),
      dueAt |-> IF timed THEN SetHours(d5, timeMatch) ELSE d5,
      priority |-> MarkerPriority(text),
      tags |-> TagsFrom(t3, 1)]

(***************************************************************************)
(* parseNLP on the fragments a user can type                               *)
(***************************************************************************)
NLen == 3           \* fragments are made of up to this many pieces

\* pieces of a fragment: words, markers, tags, date keywords, time phrases and
\* the halves of a marker
Pieces ==
  { <<" ">>,
    <<"B", "u", "y">>,
    <<"!", "H", "i", "g", "h">>,
    <<"!", "M", "e", "d", "i", "u", "m">>,
    <<"!", "l", "o", "w">>,
    <<"!", "l">>,
    <<"o", "w">>,
    <<"#", "w", "o", "r", "k">>,
    <<"#">>,
    <<"t", "o", "d", "a", "y">>,
    <<"T", "o", "m", "o", "r", "r", "o", "w">>,
    <<"n", "e", "x", "t", " ", "w", "e", "e", "k">>,
    <<"9", "a", "m">>,
    <<"2", ":", "3", "0", " ", "P", "M">>,
    <<"1", "2", "a", "m">>,
    <<"1", "3", "p", "m">> }

RECURSIVE Concat(_)
Concat(ps) == IF ps = <<>> THEN <<>> ELSE Head(ps) \o Concat(Tail(ps))

\* the fragments: every sequence of up to NLen pieces, character by character
Fragments ==
  {Concat(ps) : ps \in UNION {[1..n -> Pieces] : n \in 0..NLen}}

InitParse ==
  /\ page = "open"
  /\ tasks = <<>>
  /\ tasksType = "array"
  /\ settings = SettingsDefaults
  /\ ls = EmptiedStore
  /\ now = DayLen + 2
  /\ selectedIds = {}
  /\ modalOpen = TRUE
  /\ editingTaskId = NULL
  /\ confirmOpen = FALSE
  /\ okListeners = <<>>
  /\ dispatch = <<>>
  /\ reading = {}
  /\ downloads = NoFile
  /\ toasts = <<>>
  /\ lastOp = "openAddModal"
  /\ opsDone = 0
  /\ currentView = "today"
  /\ sortBy = "custom"
  /\ filterTag = <<>>
  /\ filterPriorities = <<>>
  /\ filterDue = ""
  /\ searchQuery = <<>>
  /\ dialog \in {[EmptyDialog EXCEPT !.title = text] : text \in Fragments}
  /\ parsed = NoResult
  /\ searchInput = <<>>
  /\ timers = <<>>
  /\ worker = NoWorker

\* `const parsed = parseNLP(e.target.value)`: the fragment in the title field
\* is parsed
ParseTitle ==
  /\ parsed = NoResult
  /\ parsed' = parseNLP(dialog.title, now)
  /\ UNCHANGED searchVars
  /\ lastOp' = "parseNLP"
  /\ UNCHANGED <<page, tasks, tasksType, settings, ls, now, selectedIds,
                 reading, downloads, toasts, opsDone, dialog>>
  /\ UNCHANGED dialogVars
  /\ UNCHANGED confirmVars
  /\ UNCHANGED queryVars

NextParse == ParseTitle

SpecParse == InitParse /\ [][NextParse]_vars

\* the marker (or keyword) lit, in any letter case, occurs in s
Has(s, lit) == \E i \in 1..Len(s) : LiteralAt(s, i, lit)

\* s holds a priority marker
HasMarker(s) == Has(s, HighMarker) \/ Has(s, MedMarker) \/ Has(s, LowMarker)

\* the priority read off the markers that occur in s
PresencePriority(s) ==
  IF Has(s, LowMarker) THEN "low"
  ELSE IF Has(s, MedMarker) THEN "medium"
  ELSE IF Has(s, HighMarker) THEN "high" ELSE "medium"

\* the length of the marker occurrence that starts at position i, 0 when none does
MarkerAt(s, i) ==
  IF LiteralAt(s, i, HighMarker) THEN 5
  ELSE IF LiteralAt(s, i, LowMarker) THEN 4
  ELSE IF LiteralAt(s, i, MedMarker)
       THEN (IF LiteralAt(s, i + 4, MedTail) THEN 7 ELSE 4)
  ELSE 0

\* the positions of s that lie inside a marker occurrence
MarkerCover(s) == UNION {i..(i + MarkerAt(s, i) - 1) : i \in 1..Len(s)}

RECURSIVE Outside(_, _, _)
Outside(s, cover, i) ==
  IF i > Len(s) THEN <<>>
  ELSE (IF i \in cover THEN <<>> ELSE <<s[i]>>) \o Outside(s, cover, i + 1)

\* s with every marker occurrence taken out at once
Stripped(s) == Outside(s, MarkerCover(s), 1)

\* taking the markers out of s joins the text around one into a new marker
MarkerJoins(s) == HasMarker(Stripped(s))

\* C15, as stated: the priority of the result is low if the text contains
\* !low, otherwise medium if it contains !med, otherwise high if it contains
\* !high, otherwise medium, and the returned title holds no marker.
C15_MarkersByPresence ==
  parsed # NoResult =>
    /\ parsed.priority = PresencePriority(dialog.title)
    /\ ~HasMarker(parsed.title)

\* C15, amended: the three passes run in the order high, medium, low, each on
\* the text the pass before it left, and the last pass that finds a marker
\* sets the priority; when taking the markers out joins no text into a new
\* marker, the priority is the one read off the markers of the text and the
\* returned title holds no marker.
C15_MarkersInOrder ==
  parsed # NoResult =>
    LET text == dialog.title
        t1   == ReplaceAll("high", text)
        t2   == ReplaceAll("med", t1)
    IN /\ parsed.priority =
            IF Has(t2, LowMarker) THEN "low"
            ELSE IF Has(t1, MedMarker) THEN "medium"
            ELSE IF Has(text, HighMarker) THEN "high" ELSE "medium"
       /\ ~MarkerJoins(text) =>
            /\ parsed.priority = PresencePriority(text)
            /\ ~HasMarker(parsed.title)

\* !low stands before !high in the text and the result is low
C15_Witness ==
  /\ parsed # NoResult
  /\ \E i, j \in 1..Len(dialog.title) :
       i < j /\ LiteralAt(dialog.title, i, LowMarker)
             /\ LiteralAt(dialog.title, j, HighMarker)
  /\ ~MarkerJoins(dialog.title)
  /\ parsed.priority = "low"
  /\ ~HasMarker(parsed.title)

\* the word w, in any letter case, occurs in s
HasWord(s, w) == \E i \in 1..Len(s) : KeywordAt(s, i, w) > 0

\* a time phrase occurs in s
HasTime(s) == \E i \in 1..Len(s) : TimeAt(s, i).len > 0

\* the keyword of s that comes first in the order today, tomorrow, next week
FirstKeyword(s) ==
  IF HasWord(s, TodayWord) THEN "today"
  ELSE IF HasWord(s, TomorrowWord) THEN "tomorrow"
  ELSE IF HasWord(s, NextWeekWords) THEN "next week" ELSE ""

\* the due date and the title that the keywords of s call for: the first
\* keyword alone sets the date (exactly so when no time phrase follows) and
\* the keywords after it stay in the title
KeywordsRule(s, t) ==
  LET key == FirstKeyword(s)
  IN /\ (parsed.dueAt = NULL) <=> (key = "")
     /\ ~HasTime(s) =>
          parsed.dueAt = CASE key = "today" -> AtTime(t, 23, 59)
                           [] key = "tomorrow" -> AtTime(AddDays(t, 1), 9, 0)
                           [] key = "next week" -> AddDays(t, 7)
                           [] OTHER -> NULL
     /\ key = "today" => ~HasWord(parsed.title, TodayWord)
     /\ key = "tomorrow" => ~HasWord(parsed.title, TomorrowWord)
     /\ key = "next week" => ~HasWord(parsed.title, NextWeekWords)
     /\ key = "today" /\ HasWord(s, TomorrowWord) => HasWord(parsed.title, TomorrowWord)
     /\ key \in {"today", "tomorrow"} /\ HasWord(s, NextWeekWords)
          => HasWord(parsed.title, NextWeekWords)

BeforeTime(text) ==
  LET s == ReplaceAll("tag", WithoutMarkers(text))
  IN WithoutKeyword(DateKeyword(s), s)

\* the date the keyword of the text sets, NULL when it has no keyword
KeywordDate(text, t) ==
  KeywordDue(DateKeyword(ReplaceAll("tag", WithoutMarkers(text))), t)

\* the tick of the wall-clock time h:m within its day
ClockTick(h, m) == ((h * 60 + m) * DayLen) \div 1440

\* C17: when the parser matches a time phrase and a date keyword has set a
\* due date, dueAt falls on the keyword's calendar date at the hour and minute
\* of the phrase (pm adds 12 unless the hour is 12, 12am is hour 0) and the
\* phrase is gone from the title; when no keyword has matched, dueAt stays
\* null and the phrase stays in the title.
C17_TimeOfDay ==
  parsed # NoResult /\ TimeMatch(BeforeTime(dialog.title)).len > 0 =>
    LET timeMatch == TimeMatch(BeforeTime(dialog.title))
        date == KeywordDate(dialog.title, now)
        phrase == SubSeq(BeforeTime(dialog.title), timeMatch.at,
                         timeMatch.at + timeMatch.len - 1)
    IN IF date # NULL
       THEN /\ StartOfDay(parsed.dueAt) = StartOfDay(date)
            /\ parsed.dueAt - StartOfDay(parsed.dueAt) =
                 ClockTick(Hour24(timeMatch.h, timeMatch.meridiem), timeMatch.m)
            /\ parsed.title =
                 Trim(CollapseFrom(ReplaceFirst(BeforeTime(dialog.title), phrase), 1))
       ELSE /\ parsed.dueAt = NULL
            /\ HasTime(parsed.title)

\* C17, on clock times only: the same holds of every matched phrase whose
\* hour is 1 to 12 and whose minute is 0 to 59.
C17_ClockTimes ==
  parsed # NoResult /\ TimeMatch(BeforeTime(dialog.title)).len > 0 =>
    LET timeMatch == TimeMatch(BeforeTime(dialog.title))
    IN timeMatch.h \in 1..12 /\ timeMatch.m \in 0..59 => C17_TimeOfDay

\* s holds a hint that parseNLP acts on whatever else s holds: a priority
\* marker, a #tag or a date keyword
HasHint(s) ==
  \/ HasMarker(s)
  \/ Test("tag", s)
  \/ HasWord(s, TodayWord) \/ HasWord(s, TomorrowWord) \/ HasWord(s, NextWeekWords)

\* a result of parseNLP
IsResult(r) ==
  /\ r.priority \in {"high", "medium", "low"}
  /\ r.dueAt = NULL \/ r.dueAt >= 0
  /\ r.title = Trim(CollapseFrom(r.title, 1))

\* C18, as stated: parseNLP returns a result for every text, the returned
\* title holds no hint, and parsing the returned title gives that title again.
C18_TitleFixedPoint ==
  parsed # NoResult =>
    /\ IsResult(parsed)
    /\ ~HasHint(parsed.title)
    /\ parseNLP(parsed.title, now).title = parsed.title

\* C18, amended: parseNLP returns a result for every text, and whenever the
\* returned title holds no priority marker, no #tag and no date keyword,
\* parsing the returned title gives that title again.
C18_FixedWithoutHints ==
  parsed # NoResult =>
    /\ IsResult(parsed)
    /\ ~HasHint(parsed.title) => parseNLP(parsed.title, now).title = parsed.title

\* hints have been taken out of the text, words are left, and the title is
\* a fixed point
C18_Witness ==
  /\ parsed # NoResult
  /\ HasHint(dialog.title)
  /\ parsed.title # <<>>
  /\ ~HasHint(parsed.title)
  /\ parseNLP(parsed.title, now).title = parsed.title

(***************************************************************************)
(* Quick entry in the Add Task dialog                                      *)
(***************************************************************************)
TitleLen == 3       \* typing is explored on titles shorter than this

\* datetimeLocal(date): the day and the minute of the day, as the due field
\* holds them
datetimeLocal(t) ==
  [day |-> t \div DayLen, minute |-> ((t % DayLen) * 1440) \div DayLen]

\* new Date(dueVal) on the value of the due field
FromLocal(v) == AtTime(v.day * DayLen, 0, v.minute)

\* parsed.tags.map(t => `#${t}`).join(' ')
RECURSIVE JoinTags(_)
JoinTags(tags) ==
  IF tags = <<>> THEN <<>>
  ELSE IF Len(tags) = 1 THEN <<"#">> \o tags[1]
  ELSE <<"#">> \o tags[1] \o <<" ">> \o JoinTags(Tail(tags))

\* texts pasted into the title field, or typed over its selected content
PastedTexts ==
  { <<"B", "u", "y">>,
    <<"t", "o", "d", "a", "y">>,
    <<"T", "o", "m", "o", "r", "r", "o", "w", " ", "9", "a", "m">>,
    <<"#", "w", "o", "r", "k", " ", "!", "H", "i", "g", "h">>,
    <<"C", "a", "l", "l", " ", "d", "o", "c", "t", "o", "r", " ", "t", "o", "d", "a", "y", " ", "#", "h", "e", "a", "l", "t", "h", " ", "!", "h", "i", "g", "h">> }

\* characters typed at the end of the title field
TypedChars == {"#", "a", "b", " "}

\* what one input event can leave in the title field: a pasted text, the
\* title with a typed character more, the title with its last character less
TitleTexts ==
  PastedTexts
    \cup (IF Len(dialog.title) < TitleLen
          THEN {dialog.title \o <<c>> : c \in TypedChars} ELSE {})
    \cup (IF dialog.title # <<>> /\ Len(dialog.title) <= TitleLen
          THEN {SubSeq(dialog.title, 1, Len(dialog.title) - 1)} ELSE {})

\* the input handler of the title field
TitleInput ==
  \E text \in TitleTexts :
    /\ Idle /\ modalOpen /\ editingTaskId = NULL
    /\ parsed' = parseNLP(text, now)
    /\ dialog' =
         [title |-> text,
          due |-> IF parsed'.dueAt # NULL /\ dialog.due = NoLocal
                  THEN datetimeLocal(parsed'.dueAt) ELSE dialog.due,
          tags |-> IF parsed'.tags # <<>> /\ dialog.tags = <<>>
                   THEN JoinTags(parsed'.tags) ELSE dialog.tags,
          priority |-> IF parsed'.priority # "medium" THEN parsed'.priority
                       ELSE dialog.priority]
    /\ lastOp' = "titleInput"
    /\ UNCHANGED searchVars
    /\ UNCHANGED <<page, tasks, tasksType, settings, ls, now, selectedIds,
                   reading, downloads, toasts, opsDone>>
    /\ UNCHANGED dialogVars
    /\ UNCHANGED confirmVars
    /\ UNCHANGED queryVars

\* what saveModal reads from the fields of the dialog
DialogForm ==
  [title |-> dialog.title,
   description |-> <<>>,
   dueAt |-> IF dialog.due = NoLocal THEN NULL ELSE FromLocal(dialog.due),
   priority |-> dialog.priority,
   tags |-> TagsFrom(dialog.tags, 1),
   starred |-> FALSE,
   subtasks |-> <<>>]

\* Enter in the title field, or the save button
SaveEntry == editingTaskId = NULL /\ SaveModal(DialogForm)

\* the page is open on a collection of one task
InitEntry ==
  /\ page = "open"
  /\ tasks = <<WindowTask(1, NULL, NULL)>>
  /\ tasksType = "array"
  /\ settings = SettingsDefaults
  /\ ls = StorageSaveTasks(EmptiedStore, tasks)
  /\ now = DayLen + 2
  /\ selectedIds = {}
  /\ modalOpen = FALSE
  /\ editingTaskId = NULL
  /\ confirmOpen = FALSE
  /\ okListeners = <<>>
  /\ dispatch = <<>>
  /\ reading = {}
  /\ downloads = NoFile
  /\ toasts = <<>>
  /\ lastOp = "boot"
  /\ opsDone = 0
  /\ currentView = "today"
  /\ sortBy = "custom"
  /\ filterTag = <<>>
  /\ filterPriorities = <<>>
  /\ filterDue = ""
  /\ searchQuery = <<>>
  /\ dialog = EmptyDialog
  /\ parsed = NoResult
  /\ searchInput = <<>>
  /\ timers = <<>>
  /\ worker = NoWorker

NextEntry ==
  \/ OpenAddModal
  \/ TitleInput
  \/ SaveEntry
  \/ CloseModal

SpecEntry == InitEntry /\ [][NextEntry]_vars

\* C19: the task that saving the Add dialog creates has the due date, the
\* tags and the priority that parseNLP extracts from the text the title field
\* holds after the last input event.
C19_QuickEntry ==
  lastOp = "addTask" /\ parsed # NoResult =>
    /\ parsed = parseNLP(dialog.title, now)
    /\ tasks[1].dueAt = parsed.dueAt
    /\ tasks[1].tags = parsed.tags
    /\ tasks[1].priority = parsed.priority

(***************************************************************************)
(* Drag and drop on collections of up to QLen tasks                        *)
(***************************************************************************)
\* the order values of the explored tasks: two tasks may share one
ReorderOrders == {0, 1, 2}

\* the task with the given id and order
ReorderTask(id, order) ==
  createTask([NoData EXCEPT !.title = <<"a">>, !.order = order, !.createdAt = 0],
             0, id)

ReorderCollections ==
  UNION { {[i \in 1..n |-> ReorderTask(i, o[i])] : o \in [1..n -> ReorderOrders]} :
          n \in 0..QLen }

InitReorder ==
  /\ page = "open"
  /\ tasks \in ReorderCollections
  /\ tasksType = "array"
  /\ settings = SettingsDefaults
  /\ ls = StorageSaveTasks(EmptiedStore, tasks)
  /\ now = 0
  /\ selectedIds = {}
  /\ modalOpen = FALSE
  /\ editingTaskId = NULL
  /\ confirmOpen = FALSE
  /\ okListeners = <<>>
  /\ dispatch = <<>>
  /\ reading = {}
  /\ downloads = NoFile
  /\ toasts = <<>>
  /\ lastOp = "boot"
  /\ opsDone = 0
  /\ currentView = "today"
  /\ sortBy = "custom"
  /\ filterTag = <<>>
  /\ filterPriorities = <<>>
  /\ filterDue = ""
  /\ searchQuery = <<>>
  /\ dialog = EmptyDialog
  /\ parsed = NoResult
  /\ searchInput = <<>>
  /\ timers = <<>>
  /\ worker = NoWorker

\* the drop handler of the card of destId, state.dragSrcId being srcId: the
\* id of the last card whose drag started, which may have been deleted since
DropOnCard(srcId, destId) ==
  /\ Foreground
  /\ opsDone < MaxOps
  /\ opsDone' = opsDone + 1
  /\ IndexOf(tasks, destId) # 0
  /\ srcId # NULL /\ srcId # destId
  /\ reorderTasks(srcId, destId)
  /\ toasts' = <<>>
  /\ lastOp' = IF IndexOf(tasks, srcId) = 0 THEN "reorderMissing" ELSE "reorderTasks"
  /\ UNCHANGED <<page, tasksType, settings, now, selectedIds, reading, downloads>>
  /\ UNCHANGED dialogVars
  /\ UNCHANGED confirmVars
  /\ UNCHANGED <<queryVars, entryVars>>

NextReorder ==
  \/ Tick
  \/ \E srcId \in 1..(QLen + 1) : \E destId \in SeqIds(tasks) :
       DropOnCard(srcId, destId)

SpecReorder == InitReorder /\ [][NextReorder]_vars

\* how many tasks of ts have the order o
OrderCount(ts, o) == Cardinality({i \in 1..Len(ts) : ts[i].order = o})

\* ts and us hold the same order values, each as many times
SameOrders(ts, us) ==
  \A o \in {ts[i].order : i \in 1..Len(ts)} \cup {us[i].order : i \in 1..Len(us)} :
     OrderCount(ts, o) = OrderCount(us, o)

\* C20: a reorder of two distinct existing tasks exchanges their order values
\* and leaves every other task as it was; a reorder naming a task that does
\* not exist changes nothing; either way the order values of the collection
\* are the same multiset before and after.
C20_ReorderExchanges ==
  [][/\ lastOp' = "reorderTasks" /\ opsDone' # opsDone =>
          /\ Len(tasks') = Len(tasks)
          /\ \E s, d \in 1..Len(tasks) :
               /\ s # d
               /\ tasks'[s].order = tasks[d].order
               /\ tasks'[d].order = tasks[s].order
               /\ \A i \in 1..Len(tasks) : i \notin {s, d} => tasks'[i] = tasks[i]
          /\ SameOrders(tasks, tasks')
     /\ lastOp' = "reorderMissing" => tasks' = tasks /\ ls' = ls
    ]_vars

\* two of three tasks have just exchanged two different order values and the
\* third is as it was created
C20_Witness ==
  /\ lastOp = "reorderTasks"
  /\ now = 1
  /\ Len(tasks) = 3
  /\ \E s, d, i \in 1..3 :
       /\ s # d /\ i \notin {s, d}
       /\ tasks[s].updatedAt = 1 /\ tasks[d].updatedAt = 1
       /\ tasks[s].order # tasks[d].order
       /\ tasks[i] = ReorderTask(i, tasks[i].order)

(***************************************************************************)
(* Changes to existing tasks, on a profile that holds tasks (C21, C22)     *)
(***************************************************************************)
InitMutate ==
  /\ PageClosed
  /\ now = 0
  /\ ls = UsedStore

\* the handlers that change a task of the collection
NextMutate ==
  \/ Boot
  \/ Tick
  \/ \E id \in SeqIds(tasks) : OpenEditModal(id)
  \/ CloseModal
  \/ \E form \in FormInputs : SaveModal(form)
  \/ \E id \in SeqIds(tasks) : ToggleStar(id)
  \/ \E id \in SeqIds(tasks) : ToggleComplete(id)
  \/ \E a, b \in SeqIds(tasks) : ReorderDrop(a, b)
  \/ \E id \in SeqIds(tasks) : ToggleSelect(id)
  \/ BulkComplete
  \/ BulkDeselect

SpecMutate == InitMutate /\ [][NextMutate]_vars

\* the step in which toggleComplete runs on a task of the collection
ToggleRuns == lastOp' = "toggleComplete" /\ opsDone' = opsDone + 1

\* the task's fields other than completedAt and updatedAt
OtherFields(task) == [task EXCEPT !.completedAt = NULL, !.updatedAt = NULL]

\* C21: toggleComplete(id) on an existing task makes completedAt the current
\* instant when it was null and null when it was set; the collection keeps
\* its length and the task its position, every other field of the task but
\* updatedAt and every other task are unchanged.  (Two toggles in a row thus
\* bring a null completedAt back to null.)
C21_ToggleFlipsOnly ==
  [][ToggleRuns =>
       \E i \in 1..Len(tasks) :
         /\ Len(tasks') = Len(tasks)
         /\ tasks'[i].completedAt = IF tasks[i].completedAt = NULL THEN now ELSE NULL
         /\ OtherFields(tasks'[i]) = OtherFields(tasks[i])
         /\ \A j \in 1..Len(tasks) : j # i => tasks'[j] = tasks[j]
    ]_vars

\* the second toggle of the task `milk` has brought its completedAt back to
\* null, at a later instant than its creation, the other task being as stored
C21_Witness ==
  /\ lastOp = "toggleComplete"
  /\ opsDone = 2
  /\ Len(tasks) = 2
  /\ tasks[1] = UsedStore.tf_tasks.items[1]
  /\ tasks[2].id = 1
  /\ tasks[2].completedAt = NULL
  /\ tasks[2].updatedAt = 1
  /\ selectedIds = {}

\* the step in which a handler changes tasks of the collection
MutationRuns ==
  /\ lastOp' \in {"updateTask", "toggleComplete", "bulkComplete", "reorderTasks"}
  /\ opsDone' = opsDone + 1

\* C22: an edit through the dialog, a star toggle, a completion toggle, a
\* bulk complete or a reorder leaves every task's id and createdAt as they
\* were and sets updatedAt to the instant of the step on every task it
\* changes (a bulk complete changes the selected tasks that were not
\* complete); the task saved from the dialog gets it even when the form
\* holds the values the task had.
C22_MutationStamps ==
  [][MutationRuns =>
       /\ Len(tasks') = Len(tasks)
       /\ \A i \in 1..Len(tasks) :
            /\ tasks'[i].id = tasks[i].id
            /\ tasks'[i].createdAt = tasks[i].createdAt
            /\ tasks'[i] # tasks[i] => tasks'[i].updatedAt = now
       /\ lastOp' # "bulkComplete" => \E i \in 1..Len(tasks) : tasks'[i].updatedAt = now
       /\ editingTaskId # NULL =>
            tasks'[IndexOf(tasks, editingTaskId)].updatedAt = now
    ]_vars

\* an edit through the dialog has renamed a task at instant 1: the task has
\* the id and the creation instant it was stored with
C22_Witness ==
  /\ lastOp = "updateTask"
  /\ now = 1
  /\ Len(tasks) = 2
  /\ tasks[2].id = 1
  /\ tasks[2].title = <<"call">>
  /\ tasks[2].createdAt = 0
  /\ tasks[2].updatedAt = 1
  /\ tasks[1].updatedAt = 0

(***************************************************************************)
(* Every way a task enters or is rewritten: seeding, the dialog, import   *)
(* (C23, C24); the dialog's quick entry is SpecEntry's                     *)
(***************************************************************************)
\* a .json file holding [{"id": "x", "title": "imported", "priority": "urgent"}]
UrgentFile ==
  File(TRUE, "array",
       << [NoData EXCEPT !.id = 102, !.title = <<"imported">>, !.priority = "urgent"] >>)

IntakeFiles == {BadJsonFile, PartialObjectFile, UrgentFile}

\* a first run, a profile emptied by its user, or one that holds one task
InitIntake ==
  /\ PageClosed
  /\ now = DayLen + 2
  /\ ls \in {ClearedStore, EmptiedStore,
             StorageSaveTasks(EmptiedStore, <<WindowTask(1, NULL, NULL)>>)}

NextIntake ==
  \/ Boot
  \/ OpenAddModal
  \/ \E id \in SeqIds(tasks) : OpenEditModal(id)
  \/ \E form \in FormInputs : SaveModal(form)
  \/ CloseModal
  \/ \E f \in IntakeFiles : ImportFile(f)
  \/ \E f \in reading : ReaderOnload(f)
  \/ ClickOK
  \/ ClickCancel
  \/ RunListener

SpecIntake == InitIntake /\ [][NextIntake]_vars

\* C23: in every state reachable by dialog saves (add and edit), imports and
\* seeding, every task of the collection has a non-empty title; and a dialog
\* save whose title is empty or only whitespace leaves the collection and
\* the stored tasks unchanged.
C23_TitlesNeverEmpty ==
  /\ \A i \in 1..Len(tasks) : tasks[i].title # <<>>
  /\ lastOp = "saveRejected" => ls.tf_tasks = StringifyTasks(tasks)

\* C23, the dialog alone: a save whose title is empty or only whitespace
\* changes neither the collection nor the stored tasks and leaves the dialog
\* open, and a save that is accepted writes a task whose title is not empty.
C23_DialogRejectsEmpty ==
  [][/\ lastOp' = "saveRejected" /\ modalOpen =>
          tasks' = tasks /\ ls' = ls /\ modalOpen'
     /\ lastOp' \in {"addTask", "updateTask"} /\ modalOpen /\ ~modalOpen' =>
          \E i \in 1..Len(tasks') :
            /\ tasks'[i].title # <<>>
            /\ tasks'[i].title = Trim(tasks'[i].title)
            /\ tasks'[i].updatedAt = now
    ]_vars

\* the priorities of the data model
PrioritySet == {"high", "medium", "low"}

\* C24: in every state reachable by add, edit, quick-entry parsing, import
\* and seeding, every task of the collection has a priority that is one of
\* high, medium, low.
C24_PriorityClosed ==
  \A i \in 1..Len(tasks) : tasks[i].priority \in PrioritySet

\* C24, without import: the tasks that seeding and the dialog write have a
\* priority that is one of high, medium, low, or the priority a task of the
\* collection already had.
C24_DialogPriorities ==
  [][lastOp' \in {"boot", "addTask", "updateTask"} =>
       \A i \in 1..Len(tasks') :
         \/ tasks'[i].priority \in PrioritySet
         \/ tasks'[i].priority \in {tasks[j].priority : j \in 1..Len(tasks)}
    ]_vars

\* C24, the quick entry: whatever is typed in the Add Task dialog, the
\* priority button it selects and the priority of the task it saves are one
\* of high, medium, low.
C24_EntryPriorities ==
  /\ dialog.priority \in PrioritySet
  /\ \A i \in 1..Len(tasks) : tasks[i].priority \in PrioritySet

(***************************************************************************)
(* The title a quick entry saves (C27)                                     *)
(***************************************************************************)
\* C27: the task the Add Task dialog saves from a quick-entry fragment has
\* the cleaned title parseNLP returns for the fragment, i.e. the title with
\* priority markers, #tags, date keyword and applied time phrase removed.
C27_CleanTitle ==
  lastOp = "addTask" /\ parsed # NoResult => tasks[1].title = parsed.title

\* C27, what is saved: the task has the text of the title field, trimmed,
\* with every hint still in it.
C27_TypedTitle ==
  lastOp = "addTask" /\ parsed # NoResult => tasks[1].title = Trim(dialog.title)

(***************************************************************************)
(* Dismissed confirmations (C28)                                           *)
(***************************************************************************)
\* the step in which the user clicks OK in the confirm dialog
OKClicked == dispatch = <<>> /\ dispatch' # <<>>

\* C28: however the earlier confirmations ended (OK, Cancel, a click on the
\* overlay, Escape), a click on OK runs one action, once: the action of the
\* confirmation now shown, which is the last one confirm() was called with.
C28_DismissedNeverFires ==
  [][OKClicked => dispatch' = <<okListeners[Len(okListeners)]>>]_vars

\* C28, for confirmations ended by OK or Cancel: once Cancel was clicked, or
\* the listeners of a click on OK have run, the OK button holds no listener.
C28_CancelledNeverFires ==
  lastOp \in {"clickCancel", "deleteTask", "bulkDelete", "clearData", "import"}
    /\ dispatch = <<>>
    => okListeners = <<>>

(***************************************************************************)
(* The search box and its debounce timer (C25, C30)                        *)
(***************************************************************************)
Debounce == 120     \* the delay handleSearch gives setTimeout, in milliseconds
Quantum == 40       \* time is explored in steps of at most this many milliseconds

\* clearTimeout(searchTimer): searchTimer is the last timer set; when it is
\* still pending it is the newest of the pending timers
clearTimeout(ts) == IF ts = <<>> THEN ts ELSE SubSeq(ts, 1, Len(ts) - 1)

\* setTimeout(() => { state.searchQuery = q; ... }, delay)
setTimeout(ts, q, delay) == Append(ts, [q |-> q, left |-> delay])

\* handleSearch with no clearTimeout: every event's timer stays pending
handleSearchNoClear(q) == timers' = setTimeout(timers, q, Debounce)

\* handleSearch(q)
handleSearch(q) == timers' = setTimeout(clearTimeout(timers), q, Debounce)

\* what the user types into the search box
SearchBoxTexts == SearchTexts \cup {<<"a">>}

\* an input event of the search box
SearchInput(q) ==
  /\ Foreground
  /\ q # searchInput
  /\ searchInput' = q
  /\ handleSearch(q)
  /\ toasts' = <<>>
  /\ lastOp' = "handleSearch"
  /\ UNCHANGED <<page, tasks, tasksType, settings, ls, now, selectedIds,
                 reading, downloads, opsDone, dialog, parsed, worker>>
  /\ UNCHANGED dialogVars
  /\ UNCHANGED confirmVars
  /\ UNCHANGED queryVars

\* Escape typed in the search box: the box's keydown listener, then
\* handleGlobalKeys on the document
SearchEscape ==
  /\ Foreground
  /\ searchInput' = <<>>
  /\ handleSearch(<<>>)
  /\ selectedIds' = {}
  /\ modalOpen' = FALSE
  /\ editingTaskId' = NULL
  /\ confirmOpen' = FALSE
  /\ toasts' = <<>>
  /\ lastOp' = "handleSearch"
  /\ UNCHANGED <<page, tasks, tasksType, settings, ls, now, okListeners, dispatch,
                 reading, downloads, opsDone, dialog, parsed, worker>>
  /\ UNCHANGED queryVars

\* time passes, up to the instant the oldest timer is due
Elapse ==
  /\ page = "open"
  /\ timers # <<>>
  /\ timers[1].left > 0
  /\ LET d == Min({Quantum, timers[1].left})
     IN timers' = [i \in 1..Len(timers) |-> [timers[i] EXCEPT !.left = @ - d]]
  /\ UNCHANGED appVars
  /\ UNCHANGED <<now, opsDone, dialog, parsed, searchInput, worker>>
  /\ UNCHANGED queryVars

\* the callback of the timer that is due
SearchTimer ==
  /\ Idle
  /\ timers # <<>>
  /\ timers[1].left = 0
  /\ searchQuery' = timers[1].q
  /\ IF currentView = "settings" THEN navigateTo("all")
     ELSE UNCHANGED <<currentView, selectedIds>>
  /\ timers' = Tail(timers)
  /\ toasts' = <<>>
  /\ lastOp' = "searchTimer"
  /\ UNCHANGED <<page, tasks, tasksType, settings, ls, now, reading, downloads,
                 opsDone, dialog, parsed, searchInput, worker>>
  /\ UNCHANGED dialogVars
  /\ UNCHANGED confirmVars
  /\ UNCHANGED <<sortBy, filterTag, filterPriorities, filterDue>>

\* a click on the empty state's button while it reads Clear Search: the
\* onclick setEmptyState gave it, and the openAddModal listener init gave it
ClearSearch ==
  /\ Foreground
  /\ currentView # "settings"
  /\ searchQuery # <<>>
  /\ getFilteredTasks = <<>>
  /\ searchQuery' = <<>>
  /\ searchInput' = <<>>
  /\ editingTaskId' = NULL
  /\ modalOpen' = TRUE
  /\ dialog' = EmptyDialog
  /\ parsed' = NoResult
  /\ toasts' = <<>>
  /\ lastOp' = "clearSearch"
  /\ UNCHANGED <<page, tasks, tasksType, settings, ls, now, selectedIds,
                 reading, downloads, opsDone, timers, worker>>
  /\ UNCHANGED confirmVars
  /\ UNCHANGED <<currentView, sortBy, filterTag, filterPriorities, filterDue>>

\* the page showing one task, with no due date, in the view All Tasks
InitSearch ==
  /\ page = "open"
  /\ tasks = <<WindowTask(1, NULL, NULL)>>
  /\ tasksType = "array"
  /\ settings = SettingsDefaults
  /\ ls = StorageSaveTasks(EmptiedStore, tasks)
  /\ now = 0
  /\ selectedIds = {}
  /\ modalOpen = FALSE
  /\ editingTaskId = NULL
  /\ confirmOpen = FALSE
  /\ okListeners = <<>>
  /\ dispatch = <<>>
  /\ reading = {}
  /\ downloads = NoFile
  /\ toasts = <<>>
  /\ lastOp = "boot"
  /\ opsDone = 0
  /\ currentView = "all"
  /\ sortBy = "custom"
  /\ filterTag = <<>>
  /\ filterPriorities = <<>>
  /\ filterDue = ""
  /\ searchQuery = <<>>
  /\ dialog = EmptyDialog
  /\ parsed = NoResult
  /\ searchInput = <<>>
  /\ timers = <<>>
  /\ worker = NoWorker

NextSearch ==
  \/ \E q \in SearchBoxTexts : SearchInput(q)
  \/ SearchEscape
  \/ Elapse
  \/ SearchTimer
  \/ ClearSearch
  \/ CloseModal
  \/ \E view \in Views : NavigateTo(view)

SpecSearch == InitSearch /\ [][NextSearch]_vars

\* the step in which a search event (an input event, or Escape in the box)
\* calls handleSearch
SearchEvent ==
  /\ lastOp' = "handleSearch"
  /\ timers' # timers \/ searchInput' # searchInput
  /\ timers' # <<>>
  /\ timers'[Len(timers')].left = Debounce

\* the step in which a timer's callback runs
TimerRuns == lastOp' = "searchTimer" /\ Len(timers') < Len(timers)

\* C25: a search event assigns nothing to state.searchQuery and leaves one
\* timer pending, its own, due in 120 ms, whatever timer was pending before
\* (the superseded event's timer is cancelled and its text never assigned);
\* state.searchQuery is assigned by a timer's callback only, and when that
\* callback runs with no other handler since the last search event, 120 ms
\* after that event, it assigns the text of the search box, which is that
\* event's text, and no timer is left.
C25_Debounce ==
  [][/\ SearchEvent =>
          /\ searchQuery' = searchQuery
          /\ timers' = <<[q |-> searchInput', left |-> Debounce]>>
     /\ TimerRuns =>
          /\ timers[1].left = 0
          /\ timers' = <<>>
          /\ lastOp = "handleSearch" => searchQuery' = searchInput
     /\ searchQuery' # searchQuery => TimerRuns \/ lastOp' = "clearSearch"
    ]_vars

\* the timer of the last event of a run of events has assigned its text,
\* which is neither the text applied before nor the empty text
C25_Witness ==
  /\ lastOp = "searchTimer"
  /\ searchQuery = <<"B">>
  /\ searchInput = <<"B">>
  /\ timers = <<>>
  /\ currentView = "all"

\* C30: whenever no debounce timer is pending, state.searchQuery is the
\* value of the search box, for every interleaving of input events, Escape
\* in the box, Clear Search clicks and timer expiries.
C30_QueryFollowsBox ==
  timers = <<>> => searchQuery = searchInput

\* C30, while the timer is pending: the text the pending timer will assign is
\* the value of the search box unless Clear Search was clicked since the
\* timer was set.
C30_PendingFollowsBox ==
  [][/\ lastOp' # "clearSearch" /\ timers' # <<>> /\ (timers # <<>> => timers[Len(timers)].q = searchInput)
       => timers'[Len(timers')].q = searchInput'
     /\ timers = <<>> /\ timers' = <<>> /\ searchQuery = searchInput /\ lastOp' # "searchTimer"
       => searchQuery' = searchInput'
    ]_vars

(***************************************************************************)
(* The selection and the list shown (C29)                                  *)
(***************************************************************************)
\* the ids of the cards renderTaskList shows
ShownIds == IF currentView = "settings" THEN {} ELSE SeqIds(getFilteredTasks)

\* the page showing two tasks of the pool, both in the view All Tasks
InitSelect ==
  /\ page = "open"
  /\ tasks = << CHOOSE x \in QueryPool : x.id = 1, CHOOSE x \in QueryPool : x.id = 3 >>
  /\ tasksType = "array"
  /\ settings = SettingsDefaults
  /\ ls = StorageSaveTasks(EmptiedStore, tasks)
  /\ now = QueryNow
  /\ selectedIds = {}
  /\ modalOpen = FALSE
  /\ editingTaskId = NULL
  /\ confirmOpen = FALSE
  /\ okListeners = <<>>
  /\ dispatch = <<>>
  /\ reading = {}
  /\ downloads = NoFile
  /\ toasts = <<>>
  /\ lastOp = "boot"
  /\ opsDone = 0
  /\ currentView = "all"
  /\ sortBy = "custom"
  /\ filterTag = <<>>
  /\ filterPriorities = <<>>
  /\ filterDue = ""
  /\ searchQuery = <<>>
  /\ dialog = EmptyDialog
  /\ parsed = NoResult
  /\ searchInput = <<>>
  /\ timers = <<>>
  /\ worker = NoWorker

\* the views, priority boxes and due buckets the user clicks
SelectViews == {"all", "completed", "settings"}
SelectPriorities == {"low"}
SelectDues == {"today"}

\* the handlers of the cards shown, of the toolbar and the sidebar, and of
\* the Settings view's data management
NextSelect ==
  \/ \E id \in ShownIds : ToggleSelect(id)
  \/ \E view \in SelectViews : NavigateTo(view)
  \/ \E q \in SearchTexts : SearchFires(q)
  \/ \E p \in SelectPriorities : TogglePriority(p)
  \/ \E d \in SelectDues : ChooseDue(d)
  \/ ClearFilters
  \/ \E tag \in AllTags : currentView # "settings" /\ TagClick(tag)
  \/ \E id \in ShownIds : ToggleComplete(id)
  \/ \E id \in ShownIds : ConfirmDelete(id)
  \/ BulkComplete
  \/ BulkDeleteClick
  \/ BulkDeselect
  \/ currentView = "settings" /\ ClearDataClick
  \/ \E f \in {UrgentFile} : currentView = "settings" /\ ImportFile(f)
  \/ \E f \in reading : ReaderOnload(f)
  \/ ClickOK
  \/ ClickCancel
  \/ RunListener

SpecSelect == InitSelect /\ [][NextSelect]_vars

\* C29: every selected id is the id of a task of the collection that
\* getFilteredTasks returns, in every state reachable by select, navigate,
\* search, filter change, tag click, completion toggle, delete, import and
\* clear-data.
C29_SelectionShown ==
  /\ selectedIds \subseteq SeqIds(tasks)
  /\ selectedIds \subseteq SeqIds(getFilteredTasks)

\* C29, existence alone: every selected id is the id of a task of the
\* collection.
C29_SelectionExists == selectedIds \subseteq SeqIds(tasks)

\* C29, the bulk actions: the step in which the tasks of the selection are
\* completed or deleted changes or removes no task but those of the list
\* shown.
C29_BulkOnShown ==
  [][lastOp' \in {"bulkComplete", "bulkDelete"} =>
       \A i \in 1..Len(tasks) :
         tasks[i] \in Range(tasks') \/ tasks[i].id \in SeqIds(getFilteredTasks)
    ]_vars

\* ---------------------------------------------------------------------------
\* The service worker (sw.js): install, activate and fetch.
\* A URL is a string; a cache is the set of URLs it holds a response for, and
\* the origin's cache storage is a function from cache names to caches.  The
\* network is up or down; when it is up a request for a file the server has
\* succeeds with status 200 and any other same-origin request with 404.
\* ---------------------------------------------------------------------------

CACHE_NAME == "taskflow-v1"

\* a cache an earlier version of the worker left behind
OldCacheName == "taskflow-v0"

FontsCss == "https://fonts.googleapis.com/css2"

FontFile == "https://fonts.gstatic.com/s/dmsans.woff2"

APP_SHELL == <<"./", "./index.html", "./styles.css", "./app.js", FontsCss>>

ShellUrls == {APP_SHELL[i] : i \in DOMAIN APP_SHELL}

\* url.includes('fonts.googleapis.com') || url.includes('fonts.gstatic.com')
IsFontUrl(url) == url \in {FontsCss, FontFile}

\* the same-origin files the server has (status 200, type 'basic')
ServedUrls == {"./", "./index.html", "./styles.css", "./app.js", "./manifest.json"}

\* the requests a controlled page makes: the shell, the manifest, a font
\* file and a file the server does not have
FetchUrls == ShellUrls \cup {"./manifest.json", FontFile, "./missing.png"}

NoResponse == [source |-> "none", body |-> "", network |-> FALSE]

\* caches.match(request): a response from any of the origin's caches
cachesMatch(c, url) == \E n \in DOMAIN c : url \in c[n]

\* caches.open(name) followed by put/addAll of the given URLs
cachePut(c, name, urls) ==
  [n \in DOMAIN c \cup {name} |->
     IF n = name THEN (IF n \in DOMAIN c THEN c[n] ELSE {}) \cup urls ELSE c[n]]

\* the fetch handler without its .catch: a failed network request is left
\* unanswered
fetchHandlerNoCatch(w, url) ==
  IF IsFontUrl(url)
  THEN IF w.online
       THEN [w EXCEPT !.caches = cachePut(w.caches, CACHE_NAME, {url}),
                      !.request = url,
                      !.response = [source |-> "network", body |-> url, network |-> TRUE]]
       ELSE [w EXCEPT !.caches = cachePut(w.caches, CACHE_NAME, {}),
                      !.request = url,
                      !.response = IF url \in cachePut(w.caches, CACHE_NAME, {})[CACHE_NAME]
                                   THEN [source |-> "cache", body |-> url, network |-> TRUE]
                                   ELSE [NoResponse EXCEPT !.network = TRUE]]
  ELSE IF cachesMatch(w.caches, url)
  THEN [w EXCEPT !.request = url,
                 !.response = [source |-> "cache", body |-> url, network |-> FALSE]]
  ELSE IF w.online
  THEN IF url \in ServedUrls
       THEN [w EXCEPT !.caches = cachePut(w.caches, CACHE_NAME, {url}),
                      !.request = url,
                      !.response = [source |-> "network", body |-> url, network |-> TRUE]]
       ELSE [w EXCEPT !.request = url,
                      !.response = [source |-> "network", body |-> "404", network |-> TRUE]]
  ELSE [w EXCEPT !.request = url,
                 !.response = [NoResponse EXCEPT !.network = TRUE]]

\* the fetch handler: fonts network first with the cache behind it, anything
\* else cache first, then the network, then the cached ./index.html
\* (cache.put, which the handler does not wait for, is taken as done when
\* the handler answers)
fetchHandler(w, url) ==
  IF IsFontUrl(url)
  THEN IF w.online
       THEN [w EXCEPT !.caches = cachePut(w.caches, CACHE_NAME, {url}),
                      !.request = url,
                      !.response = [source |-> "network", body |-> url, network |-> TRUE]]
       ELSE [w EXCEPT !.caches = cachePut(w.caches, CACHE_NAME, {}),
                      !.request = url,
                      !.response = IF url \in cachePut(w.caches, CACHE_NAME, {})[CACHE_NAME]
                                   THEN [source |-> "cache", body |-> url, network |-> TRUE]
                                   ELSE [NoResponse EXCEPT !.network = TRUE]]
  ELSE IF cachesMatch(w.caches, url)
  THEN [w EXCEPT !.request = url,
                 !.response = [source |-> "cache", body |-> url, network |-> FALSE]]
  ELSE IF w.online
  THEN IF url \in ServedUrls
       THEN [w EXCEPT !.caches = cachePut(w.caches, CACHE_NAME, {url}),
                      !.request = url,
                      !.response = [source |-> "network", body |-> url, network |-> TRUE]]
       ELSE [w EXCEPT !.request = url,
                      !.response = [source |-> "network", body |-> "404", network |-> TRUE]]
  ELSE [w EXCEPT !.request = url,
                 !.response = IF cachesMatch(w.caches, "./index.html")
                              THEN [source |-> "cache", body |-> "./index.html", network |-> TRUE]
                              ELSE [NoResponse EXCEPT !.network = TRUE]]

\* what the worker's events leave alone: the whole page
workerFrame ==
  UNCHANGED <<page, tasks, tasksType, settings, ls, now, selectedIds, modalOpen,
              editingTaskId, confirmOpen, okListeners, dispatch, reading,
              downloads, toasts, opsDone, currentView, sortBy, filterTag,
              filterPriorities, filterDue, searchQuery, dialog, parsed,
              searchInput, timers>>

\* 'install': cache.addAll(APP_SHELL) stores every entry or, when a request
\* fails, none, and the installation fails with the cache opened
Install ==
  /\ worker.phase = "none"
  /\ worker' = IF worker.online
               THEN [worker EXCEPT !.caches = cachePut(@, CACHE_NAME, ShellUrls),
                                   !.phase = "installed"]
               ELSE [worker EXCEPT !.caches = cachePut(@, CACHE_NAME, {})]
  /\ lastOp' = "install"
  /\ workerFrame

\* 'activate': every cache whose name is not CACHE_NAME is deleted
Activate ==
  /\ worker.phase = "installed"
  /\ worker' = [worker EXCEPT
                  !.caches = [n \in DOMAIN @ \cap {CACHE_NAME} |-> @[n]],
                  !.phase = "active"]
  /\ lastOp' = "activate"
  /\ workerFrame

\* 'fetch': a request of a page the active worker controls
Fetch(url) ==
  /\ worker.phase = "active"
  /\ worker' = fetchHandler(worker, url)
  /\ lastOp' = "fetch"
  /\ workerFrame

\* the connection drops or comes back
Network ==
  /\ worker' = [worker EXCEPT !.online = ~@]
  /\ lastOp' = "network"
  /\ workerFrame

InitWorker ==
  /\ PageClosed
  /\ now = 0
  /\ ls = ClearedStore
  /\ worker \in {NoWorker,
                 [NoWorker EXCEPT !.caches = (OldCacheName :> {"./", "./index.html"})]}

NextWorker ==
  \/ Install
  \/ Activate
  \/ \E url \in FetchUrls : Fetch(url)
  \/ Network

SpecWorker == InitWorker /\ [][NextWorker]_vars

\* a fetch event for url is handled in this step
FetchOf(url) ==
  /\ lastOp' = "fetch"
  /\ worker.phase = "active"
  /\ worker'.request = url

\* after activation CACHE_NAME is the only cache and holds the whole shell
ShellCached(w) ==
  w.phase = "active"
    => DOMAIN w.caches = {CACHE_NAME} /\ ShellUrls \subseteq w.caches[CACHE_NAME]

\* what the claim and its amended form share: the fallback for requests
\* that are neither cached nor reachable, and the cache left by activation
OfflineRules(url) ==
  /\ ~IsFontUrl(url) /\ ~cachesMatch(worker.caches, url) /\ ~worker.online
       => worker'.response.source = "cache"
          /\ worker'.response.body = "./index.html"
  /\ ~IsFontUrl(url) /\ ~worker.online => worker'.response.source # "none"
  /\ ShellCached(worker) /\ ShellCached(worker')

\* C26 (as stated): once the worker is installed and activated, every fetch
\* of a cached app-shell URL is answered from the cache without using the
\* network; every non-font fetch that is not cached and whose network request
\* fails is answered with the cached ./index.html, so with the network down
\* every non-font request receives a response; and after activation the only
\* cache left is CACHE_NAME.
C26_OfflineAfterFirstLoad ==
  [][\A url \in FetchUrls :
       FetchOf(url) =>
         /\ url \in ShellUrls /\ cachesMatch(worker.caches, url)
              => /\ worker'.response.source = "cache"
                 /\ worker'.response.body = url
                 /\ ~worker'.response.network
         /\ OfflineRules(url)]_vars

\* C26 (amended): the same, except that the Google Fonts stylesheet, although
\* an app-shell entry, is requested from the network first and answered from
\* the cache only when that request fails; every other cached app-shell URL
\* is answered from the cache without using the network.
C26_OfflineShell ==
  [][\A url \in FetchUrls :
       FetchOf(url) =>
         /\ url \in ShellUrls /\ ~IsFontUrl(url)
              => /\ worker'.response.source = "cache"
                 /\ worker'.response.body = url
                 /\ ~worker'.response.network
         /\ url \in ShellUrls /\ IsFontUrl(url)
              => /\ worker'.response.body = url
                 /\ worker'.response.network
                 /\ worker'.response.source
                      = (IF worker.online THEN "network" ELSE "cache")
         /\ OfflineRules(url)]_vars

\* the network is down, a file that is not cached is requested, and the
\* answer is the cached ./index.html
C26_Witness ==
  /\ lastOp = "fetch"
  /\ worker.phase = "active"
  /\ ~worker.online
  /\ worker.request = "./missing.png"
  /\ worker.response = [source |-> "cache", body |-> "./index.html", network |-> TRUE]

====
